---------------------------- MODULE Spec2Model ----------------------------
(***************************************************************************)
(* Model of the provider layer of openSesh (src-tauri/src/providers) and   *)
(* of the chat commands that drive it (src-tauri/src/commands/chat.rs).    *)
(*                                                                         *)
(* One call of chat / chat_stream is followed from the HTTP request to its *)
(* result.  For chat_stream the transport hands the decoder chunks of the  *)
(* SSE body; the decoder turns every chunk into ChatChunk items, which the *)
(* send_message_stream loop pulls one by one and emits on the event        *)
(* channel.                                                                *)
(***************************************************************************)
EXTENDS Integers, Sequences, FiniteSets, TLC

\* Number of SSE lines the vendor sends in one stream.
MaxLines == 2

VARIABLES
    pc,         \* position of the call: "idle", "awaiting", "streaming", "done"
    vendor,     \* "anthropic" or "openai"
    op,         \* "chat" or "chat_stream"
    status,     \* HTTP status of the response (0 before one arrived)
    result,     \* what the call returned: NoResult, OkResult or the ProviderError
    body,       \* the body of the HTTP response, as far as the call reads it
    response,   \* Option<ChatResponse>: what chat returned inside Ok
    requests,   \* HTTP requests issued by the call
    sent,       \* the lines of the body whose bytes have all been delivered
    partial,    \* the line a chunk boundary cut, its rest not yet delivered
    transport,  \* byte stream: "open", "failed", "ended"
    buf,        \* ChatChunks decoded from the current transport chunk, not yet pulled
    decoded,    \* every ChatChunk the decoder produced, in order
    yielded,    \* items stream.next() has returned, in order
    emitted,    \* events emitted on the chat-stream-<id> channel, in order
    emitFailed, \* an app.emit call returned an error
    provider,   \* the provider's fields: model, system_prompt, max_tokens, temperature
    phase,      \* a call on the provider: "idle", "awaiting", "streaming"
    request,    \* Option: the request the last call built and sent
    snapshot,   \* the provider's fields when the last call started
    captured,   \* Option: the model the stream of the last chat_stream call holds
    started,    \* Option: the MessageStart the stream of the last call yielded
    conversation, \* the messages handed to chat / chat_stream
    encoded,    \* Option: `system` and `messages` of the request built from it
    returned,   \* Option: the messages read back from the encoded request
    output,     \* Option: what the ChatResponse helpers gave for `response`
    providers,  \* AppState.providers: registered name -> provider
    active_provider, \* AppState.active_provider: Option<String>
    outcome,    \* the last command on the registry and what it returned
    fs,         \* the file system the tools work on: path -> node
    log,        \* the tool calls executed so far and what each returned
    rwlocks,    \* the two RwLocks of AppState: holders and wait queue of each
    tasks,      \* the calls running on AppState, each with its position
    env,        \* the API keys in the environment: vendor -> Option<String>
    sessions,   \* TerminalState.sessions: terminal id -> session
    calls       \* the terminal commands under way and finished

configVars == <<provider, phase, request, snapshot, captured, started>>

encodeVars == <<conversation, encoded, returned>>
registryVars == <<providers, active_provider, outcome>>
toolVars == <<fs, log>>
lockVars == <<rwlocks, tasks, env>>
terminalVars == <<sessions, calls>>
laterVars == <<toolVars, lockVars, terminalVars>>
otherVars == <<encodeVars, output, registryVars, laterVars>>

vars == <<pc, vendor, op, status, result, body, response, requests, sent, partial,
          transport, buf, decoded, yielded, emitted, emitFailed, configVars, otherVars>>

Vendors == {"anthropic", "openai"}
Ops == {"chat", "chat_stream"}

\* Option<T>
None == <<>>
Some(x) == <<x>>
IsSome(o) == Len(o) = 1
Unwrap(o) == o[1]

SeqsUpTo(S, n) == UNION {[1..k -> S] : k \in 0..n}

(***************************************************************************)
(* ChatChunk (providers/types.rs) and the stream's items.                  *)
(***************************************************************************)
ChatChunk(type, index, kind, data, stop, usage) ==
    [type |-> type, index |-> index, kind |-> kind, data |-> data,
     stop |-> stop, usage |-> usage]

MessageStart(id, model) == ChatChunk("MessageStart", 0, "", <<id, model>>, None, None)
ContentBlockStart(index, kind, data) ==
    ChatChunk("ContentBlockStart", index, kind, data, None, None)
ContentBlockDelta(index, kind, frag) ==
    ChatChunk("ContentBlockDelta", index, kind, <<frag>>, None, None)
ContentBlockStop(index) == ChatChunk("ContentBlockStop", index, "", <<>>, None, None)
MessageDelta(stop, usage) == ChatChunk("MessageDelta", 0, "", <<>>, stop, usage)
MessageStop == ChatChunk("MessageStop", 0, "", <<>>, None, None)
ErrorChunk(message) == ChatChunk("Error", 0, "", <<message>>, None, None)
Ping == ChatChunk("Ping", 0, "", <<>>, None, None)

\* Result<ChatChunk, ProviderError>
Ok(chunk) == [res |-> "Ok", chunk |-> chunk]
Err(e) == [res |-> "Err", chunk |-> ErrorChunk(e)]

(***************************************************************************)
(* The SSE body.  A line is a record: pre says whether it starts with      *)
(* "data: ", payload is what follows.                                      *)
(***************************************************************************)
DoneSentinel == [type |-> "[DONE]"]
Malformed == [type |-> "malformed"]
Truncated == [type |-> "truncated"]
Remainder == [type |-> "remainder"]

DataLine(p) == [pre |-> TRUE, payload |-> p]
\* A line that is no data line: "event: ...", a comment, a blank line.
OtherLine == [pre |-> FALSE, payload |-> [type |-> "event-line"]]

\* Anthropic stream JSON (AnthropicStreamEvent)
AFrame(type, index, kind, data, stop, usage) ==
    [type |-> type, index |-> index, kind |-> kind, data |-> data,
     stop |-> stop, usage |-> usage]

AnthropicEventTypes ==
    {"message_start", "content_block_start", "content_block_delta",
     "content_block_stop", "message_delta", "message_stop", "ping", "error"}

AnthropicFrames ==
    {AFrame("message_start", 0, "", <<"msg_1", "claude">>, None, None),
     AFrame("content_block_start", 0, "text", <<"">>, None, None),
     AFrame("content_block_start", 1, "tool_use", <<"toolu_1", "read_file">>, None, None),
     AFrame("content_block_delta", 0, "text_delta", <<"hi">>, None, None),
     AFrame("content_block_delta", 1, "input_json_delta", <<"{">>, None, None),
     AFrame("content_block_stop", 1, "", <<>>, None, None),
     AFrame("message_delta", 0, "", <<>>, Some("tool_use"), Some(<<7, 3>>)),
     AFrame("message_delta", 0, "", <<>>, Some("refusal"), None),
     AFrame("message_stop", 0, "", <<>>, None, None),
     AFrame("ping", 0, "", <<>>, None, None),
     AFrame("error", 0, "", <<"overloaded">>, None, None)}

\* OpenAI stream JSON (OpenAIStreamChunk)
OToolCall(index, id, function) == [index |-> index, id |-> id, function |-> function]
OFunction(name, arguments) == [name |-> name, arguments |-> arguments]
OChoice(content, tool_calls, finish_reason) ==
    [content |-> content, tool_calls |-> tool_calls, finish_reason |-> finish_reason]
OChunk(choices, usage) ==
    [type |-> "chunk", id |-> "chatcmpl_1", choices |-> choices, usage |-> usage]

OToolStart(i, args) ==
    OToolCall(i, Some(IF i = 0 THEN "call_1" ELSE "call_2"),
              Some(OFunction(Some("read_file"), Some(args))))
OToolArgs(i, args) == OToolCall(i, None, Some(OFunction(None, Some(args))))

OpenAIFrames ==
    {OChunk(<<OChoice(Some("hi"), None, None)>>, None),
     OChunk(<<OChoice(Some(""), None, None)>>, None),
     OChunk(<<OChoice(None, Some(<<OToolStart(0, "")>>), None)>>, None),
     OChunk(<<OChoice(None, Some(<<OToolStart(0, "{"), OToolStart(1, "{")>>), None)>>, None),
     OChunk(<<OChoice(None, Some(<<OToolArgs(0, "}")>>), None)>>, None),
     OChunk(<<OChoice(None, Some(<<OToolArgs(1, "}")>>), None)>>, None),
     OChunk(<<OChoice(None, None, Some("tool_calls"))>>, None),
     OChunk(<<OChoice(None, None, Some("content_filter"))>>, None),
     OChunk(<<>>, Some(<<7, 3>>))}

AnthropicLines ==
    {DataLine(f) : f \in AnthropicFrames \cup {DoneSentinel, Malformed}} \cup {OtherLine}
OpenAILines ==
    {DataLine(f) : f \in OpenAIFrames \cup {DoneSentinel, Malformed}} \cup {OtherLine}

\* The lines a vendor's body is made of.
Lines(v) == IF v = "anthropic" THEN AnthropicLines ELSE OpenAILines

(***************************************************************************)
(* Anthropic stream decoder: the closure of chat_stream.                   *)
(***************************************************************************)
\* serde_json::from_str::<AnthropicStreamEvent>(data).is_ok()
ParsesAnthropic(p) == p.type \in AnthropicEventTypes

AnthropicStopReason(r) ==
    CASE r = "end_turn" -> "EndTurn"
      [] r = "max_tokens" -> "MaxTokens"
      [] r = "stop_sequence" -> "StopSequence"
      [] r = "tool_use" -> "ToolUse"
      [] OTHER -> "EndTurn"

AnthropicBlockKind(k) ==
    CASE k = "text" -> "Text"
      [] k = "tool_use" -> "ToolUse"
      [] k = "image" -> "Image"
      [] k = "tool_result" -> "ToolResult"

AnthropicDeltaKind(k) ==
    CASE k = "text_delta" -> "TextDelta"
      [] k = "input_json_delta" -> "InputJsonDelta"

\* A translation that takes a ping for the end of the message.
AnthropicEventChunkPingStops(event) ==
    CASE event.type = "message_start" ->
            MessageStart(event.data[1], event.data[2])
      [] event.type = "content_block_start" ->
            ContentBlockStart(event.index, AnthropicBlockKind(event.kind), event.data)
      [] event.type = "content_block_delta" ->
            ContentBlockDelta(event.index, AnthropicDeltaKind(event.kind), event.data[1])
      [] event.type = "content_block_stop" ->
            ContentBlockStop(event.index)
      [] event.type = "message_delta" ->
            MessageDelta(IF IsSome(event.stop)
                            THEN Some(AnthropicStopReason(Unwrap(event.stop)))
                            ELSE None,
                         event.usage)
      [] event.type = "message_stop" -> MessageStop
      [] event.type = "ping" -> MessageStop
      [] event.type = "error" -> ErrorChunk(event.data[1])

\* The match on the parsed event: one ChatChunk per event.
AnthropicEventChunk(event) ==
    CASE event.type = "message_start" ->
            MessageStart(event.data[1], event.data[2])
      [] event.type = "content_block_start" ->
            ContentBlockStart(event.index, AnthropicBlockKind(event.kind), event.data)
      [] event.type = "content_block_delta" ->
            ContentBlockDelta(event.index, AnthropicDeltaKind(event.kind), event.data[1])
      [] event.type = "content_block_stop" ->
            ContentBlockStop(event.index)
      [] event.type = "message_delta" ->
            MessageDelta(IF IsSome(event.stop)
                            THEN Some(AnthropicStopReason(Unwrap(event.stop)))
                            ELSE None,
                         event.usage)
      [] event.type = "message_stop" -> MessageStop
      [] event.type = "ping" -> Ping
      [] event.type = "error" -> ErrorChunk(event.data[1])

\* A decoder that reports a line it cannot parse as an error.
AnthropicLineChunksErr(line) ==
    IF ~line.pre THEN <<>>
    ELSE IF line.payload.type = "[DONE]" THEN <<>>
    ELSE IF ParsesAnthropic(line.payload) THEN <<AnthropicEventChunk(line.payload)>>
    ELSE <<ErrorChunk("parse error")>>

\* What one line of the chunk adds to `chunks`.
AnthropicLineChunks(line) ==
    IF ~line.pre THEN <<>>
    ELSE IF line.payload.type = "[DONE]" THEN <<>>
    ELSE IF ParsesAnthropic(line.payload) THEN <<AnthropicEventChunk(line.payload)>>
    ELSE <<>>

\* A decoder that puts the events of a line before those of earlier lines.
RECURSIVE AnthropicDecodeReversed(_, _)
AnthropicDecodeReversed(lines, chunks) ==
    IF lines = <<>> THEN chunks
    ELSE AnthropicDecodeReversed(Tail(lines), AnthropicLineChunks(Head(lines)) \o chunks)

\* for line in text.lines() { ... }: the chunks of one transport chunk.
RECURSIVE AnthropicDecode(_, _)
AnthropicDecode(lines, chunks) ==
    IF lines = <<>> THEN chunks
    ELSE AnthropicDecode(Tail(lines), chunks \o AnthropicLineChunks(Head(lines)))

(***************************************************************************)
(* OpenAI stream decoder: the closure of chat_stream.                      *)
(***************************************************************************)
\* serde_json::from_str::<OpenAIStreamChunk>(data).is_ok()
ParsesOpenAI(p) == p.type = "chunk"

\* Option<StopReason> of a finish_reason in the stream.
OpenAIStreamStopReason(finish_reason) ==
    CASE finish_reason = "stop" -> Some("EndTurn")
      [] finish_reason = "length" -> Some("MaxTokens")
      [] finish_reason = "tool_calls" -> Some("ToolUse")
      [] OTHER -> None

\* A decoder that forwards an argument fragment only if the fragment alone
\* is a JSON document.
OpenAIToolCallChunksParsed(tc) ==
    (IF IsSome(tc.id)
        THEN <<ContentBlockStart(
                 tc.index + 1, "ToolUse",
                 <<Unwrap(tc.id),
                   IF IsSome(tc.function) /\ IsSome(Unwrap(tc.function).name)
                      THEN Unwrap(Unwrap(tc.function).name) ELSE "">>)>>
        ELSE <<>>)
    \o
    (IF IsSome(tc.function) /\ IsSome(Unwrap(tc.function).arguments)
        /\ Unwrap(Unwrap(tc.function).arguments) \in {"{}", "1", "null"}
        THEN <<ContentBlockDelta(tc.index + 1, "InputJsonDelta",
                                 Unwrap(Unwrap(tc.function).arguments))>>
        ELSE <<>>)

\* A decoder that passes the vendor's tool-call index on without the offset.
OpenAIToolCallChunksNoOffset(tc) ==
    (IF IsSome(tc.id)
        THEN <<ContentBlockStart(
                 tc.index, "ToolUse",
                 <<Unwrap(tc.id),
                   IF IsSome(tc.function) /\ IsSome(Unwrap(tc.function).name)
                      THEN Unwrap(Unwrap(tc.function).name) ELSE "">>)>>
        ELSE <<>>)
    \o
    (IF IsSome(tc.function) /\ IsSome(Unwrap(tc.function).arguments)
        /\ Unwrap(Unwrap(tc.function).arguments) # ""
        THEN <<ContentBlockDelta(tc.index, "InputJsonDelta",
                                 Unwrap(Unwrap(tc.function).arguments))>>
        ELSE <<>>)

\* One entry of delta.tool_calls.
OpenAIToolCallChunks(tc) ==
    (IF IsSome(tc.id)
        THEN <<ContentBlockStart(
                 tc.index + 1, "ToolUse",
                 <<Unwrap(tc.id),
                   IF IsSome(tc.function) /\ IsSome(Unwrap(tc.function).name)
                      THEN Unwrap(Unwrap(tc.function).name) ELSE "">>)>>
        ELSE <<>>)
    \o
    (IF IsSome(tc.function) /\ IsSome(Unwrap(tc.function).arguments)
        /\ Unwrap(Unwrap(tc.function).arguments) # ""
        THEN <<ContentBlockDelta(tc.index + 1, "InputJsonDelta",
                                 Unwrap(Unwrap(tc.function).arguments))>>
        ELSE <<>>)

RECURSIVE OpenAIToolCallsChunks(_)
OpenAIToolCallsChunks(tcs) ==
    IF tcs = <<>> THEN <<>>
    ELSE OpenAIToolCallChunks(Head(tcs)) \o OpenAIToolCallsChunks(Tail(tcs))

\* One entry of chunk.choices.
OpenAIChoiceChunks(choice, usage) ==
    (IF IsSome(choice.content) /\ Unwrap(choice.content) # ""
        THEN <<ContentBlockDelta(0, "TextDelta", Unwrap(choice.content))>>
        ELSE <<>>)
    \o
    (IF IsSome(choice.tool_calls)
        THEN OpenAIToolCallsChunks(Unwrap(choice.tool_calls)) ELSE <<>>)
    \o
    (IF IsSome(choice.finish_reason)
        THEN <<MessageDelta(OpenAIStreamStopReason(Unwrap(choice.finish_reason)), usage)>>
        ELSE <<>>)

RECURSIVE OpenAIChoicesChunks(_, _)
OpenAIChoicesChunks(choices, usage) ==
    IF choices = <<>> THEN <<>>
    ELSE OpenAIChoiceChunks(Head(choices), usage)
         \o OpenAIChoicesChunks(Tail(choices), usage)

\* `chunks` after one line of the transport chunk.
OpenAILineChunks(line, chunks, model) ==
    IF ~line.pre THEN chunks
    ELSE IF line.payload.type = "[DONE]" THEN chunks \o <<MessageStop>>
    ELSE IF ParsesOpenAI(line.payload) THEN
        (IF chunks = <<>> THEN <<MessageStart(line.payload.id, model)>> ELSE chunks)
        \o OpenAIChoicesChunks(line.payload.choices, line.payload.usage)
    ELSE chunks

\* for line in text.lines() { ... }: the chunks of one transport chunk.
RECURSIVE OpenAIDecode(_, _, _)
OpenAIDecode(lines, chunks, model) ==
    IF lines = <<>> THEN chunks
    ELSE OpenAIDecode(Tail(lines), OpenAILineChunks(Head(lines), chunks, model), model)

\* DEFAULT_MODEL of the two providers.
DefaultModel(v) == IF v = "anthropic" THEN "claude-sonnet-4-20250514" ELSE "gpt-4o"

\* The ChatChunks one transport chunk (a sequence of lines) is decoded to.
DecodeChunk(v, lines) ==
    IF v = "anthropic" THEN AnthropicDecode(lines, <<>>)
    ELSE OpenAIDecode(lines, <<>>, DefaultModel(v))

(***************************************************************************)
(* The HTTP exchange of chat and chat_stream.                              *)
(***************************************************************************)
Statuses == {200, 404, 429, 500}
IsSuccess(st) == st \in 200..299

NoResult == [kind |-> "none", status |-> 0, message |-> ""]
OkResult == [kind |-> "Ok", status |-> 0, message |-> ""]
RequestFailed == [kind |-> "RequestFailed", status |-> 0, message |-> "reqwest"]
RateLimited == [kind |-> "RateLimited", status |-> 0, message |-> ""]
ApiError(st, message) == [kind |-> "ApiError", status |-> st, message |-> message]

\* The body of a non-2xx response, read with response.text(): the vendor's
\* error JSON, some other text, or nothing.
NoBody == [kind |-> "none"]
ErrorJson(message) ==
    [kind |-> "error_json", message |-> message, text |-> "{error: " \o message \o "}"]
PlainText(text) == [kind |-> "text", text |-> text]
ErrorBodies == {ErrorJson("overloaded"), PlainText("Bad Gateway"), PlainText("")}

\* serde_json::from_str::<AnthropicError / OpenAIError>(&error_text).is_ok()
ParsesError(error_text) == error_text.kind = "error_json"

\* The `if !status.is_success()` block of each of the four calls.
AnthropicChatError(st, error_text) ==
    IF ParsesError(error_text)
      THEN (IF st = 429 THEN RateLimited ELSE ApiError(st, error_text.message))
      ELSE ApiError(st, error_text.text)

AnthropicStreamError(st, error_text) ==
    IF ParsesError(error_text)
      THEN (IF st = 429 THEN RateLimited ELSE ApiError(st, error_text.message))
      ELSE ApiError(st, error_text.text)

\* An error block that always reports the raw body text.
OpenAIChatErrorRawText(st, error_text) ==
    IF ParsesError(error_text) /\ st = 429 THEN RateLimited
    ELSE ApiError(st, error_text.text)

OpenAIChatError(st, error_text) ==
    IF ParsesError(error_text)
      THEN (IF st = 429 THEN RateLimited ELSE ApiError(st, error_text.message))
      ELSE ApiError(st, error_text.text)

OpenAIStreamError(st, error_text) ==
    IF ParsesError(error_text)
      THEN (IF st = 429 THEN RateLimited ELSE ApiError(st, error_text.message))
      ELSE ApiError(st, error_text.text)

StatusError(v, o, st, error_text) ==
    CASE v = "anthropic" /\ o = "chat" -> AnthropicChatError(st, error_text)
      [] v = "anthropic" /\ o = "chat_stream" -> AnthropicStreamError(st, error_text)
      [] v = "openai" /\ o = "chat" -> OpenAIChatError(st, error_text)
      [] v = "openai" /\ o = "chat_stream" -> OpenAIStreamError(st, error_text)

(***************************************************************************)
(* The body of a 2xx response to chat, and convert_response.               *)
(***************************************************************************)
\* A body response.json() cannot decode as the vendor's response.
Undecodable == [kind |-> "undecodable"]

Usage(input_tokens, output_tokens) ==
    [input_tokens |-> input_tokens, output_tokens |-> output_tokens]

\* serde_json::Value: null, a number, a string, or an object, which maps its
\* keys to values and has no order.
JsonNull == [t |-> "null"]
JsonNumber(n) == [t |-> "number", n |-> n]
JsonString(str) == [t |-> "string", s |-> str]
JsonObject(map) == [t |-> "object", map |-> map]
JsonBool(b) == [t |-> "bool", b |-> b]
JsonArray(items) == [t |-> "array", items |-> items]
EmptyMap == <<>>
MapInsert(map, key, value) ==
    [k \in DOMAIN map \cup {key} |-> IF k = key THEN value ELSE map[k]]

\* JSON text is a sequence of tokens.
Token(kind, value) == [kind |-> kind, value |-> value]
LBrace == Token("{", 0)
RBrace == Token("}", 0)
Colon == Token(":", 0)
Comma == Token(",", 0)
NullToken == Token("null", 0)
LBracket == Token("[", 0)
RBracket == Token("]", 0)

\* The keys of the objects, in the order of the map (BTreeMap: sorted).
JsonKeys ==
    <<"a", "b", "content", "count", "entries", "error", "file_pattern", "matches",
      "message", "path", "pattern", "query", "results", "success">>

\* A serializer that writes every object as the empty object.
JsonToStringEmptyObjects(value) ==
    CASE value.t = "null" -> <<NullToken>>
      [] value.t = "number" -> <<Token("number", value.n)>>
      [] value.t = "string" -> <<Token("string", value.s)>>
      [] value.t = "object" -> <<LBrace, RBrace>>

\* serde_json::to_string(value)
RECURSIVE JsonToString(_)
RECURSIVE MembersToString(_, _, _)
RECURSIVE ItemsToString(_, _)
ItemsToString(items, first) ==
    IF items = <<>> THEN <<>>
    ELSE (IF first THEN <<>> ELSE <<Comma>>)
         \o JsonToString(Head(items))
         \o ItemsToString(Tail(items), FALSE)
MembersToString(map, keys, first) ==
    IF keys = <<>> THEN <<>>
    ELSE IF Head(keys) \notin DOMAIN map THEN MembersToString(map, Tail(keys), first)
    ELSE (IF first THEN <<>> ELSE <<Comma>>)
         \o <<Token("string", Head(keys)), Colon>>
         \o JsonToString(map[Head(keys)])
         \o MembersToString(map, Tail(keys), FALSE)
JsonToString(value) ==
    CASE value.t = "null" -> <<NullToken>>
      [] value.t = "number" -> <<Token("number", value.n)>>
      [] value.t = "string" -> <<Token("string", value.s)>>
      [] value.t = "bool" -> <<Token("bool", value.b)>>
      [] value.t = "array" ->
            <<LBracket>> \o ItemsToString(value.items, TRUE) \o <<RBracket>>
      [] value.t = "object" ->
            <<LBrace>> \o MembersToString(value.map, JsonKeys, TRUE) \o <<RBrace>>

\* A parse: the value and the tokens after it, or a failure.
Parsed(value, rest) == [ok |-> TRUE, value |-> value, rest |-> rest]
ParseError == [ok |-> FALSE, value |-> JsonNull, rest |-> <<>>]

\* The deserializer: one value from the front of the tokens.
RECURSIVE ParseValue(_)
RECURSIVE ParseMembers(_, _)
RECURSIVE ParseItems(_, _)
\* After an item: the array ends, or a comma and the next item follow.
AfterItem(items, rest) ==
    IF rest = <<>> THEN ParseError
    ELSE IF Head(rest).kind = "]" THEN Parsed(JsonArray(items), Tail(rest))
    ELSE IF Head(rest).kind = "," THEN ParseItems(Tail(rest), items)
    ELSE ParseError
ParseItems(tokens, items) ==
    LET item == ParseValue(tokens)
    IN  IF item.ok THEN AfterItem(Append(items, item.value), item.rest) ELSE ParseError
\* After a member: the object ends, or a comma and the next member follow.
AfterMember(map, rest) ==
    IF rest = <<>> THEN ParseError
    ELSE IF Head(rest).kind = "}" THEN Parsed(JsonObject(map), Tail(rest))
    ELSE IF Head(rest).kind = "," THEN ParseMembers(Tail(rest), map)
    ELSE ParseError
\* A member: a key, a colon and a value.
ParseMembers(tokens, map) ==
    IF Len(tokens) < 3 \/ tokens[1].kind # "string" \/ tokens[2].kind # ":" THEN ParseError
    ELSE LET member == ParseValue(SubSeq(tokens, 3, Len(tokens)))
         IN  IF member.ok
               THEN AfterMember(MapInsert(map, tokens[1].value, member.value), member.rest)
               ELSE ParseError
ParseValue(tokens) ==
    IF tokens = <<>> THEN ParseError
    ELSE CASE Head(tokens).kind = "null" -> Parsed(JsonNull, Tail(tokens))
           [] Head(tokens).kind = "number" ->
                 Parsed(JsonNumber(Head(tokens).value), Tail(tokens))
           [] Head(tokens).kind = "string" ->
                 Parsed(JsonString(Head(tokens).value), Tail(tokens))
           [] Head(tokens).kind = "bool" ->
                 Parsed(JsonBool(Head(tokens).value), Tail(tokens))
           [] Head(tokens).kind = "[" ->
                 (IF Len(tokens) >= 2 /\ tokens[2].kind = "]"
                    THEN Parsed(JsonArray(<<>>), SubSeq(tokens, 3, Len(tokens)))
                  ELSE ParseItems(Tail(tokens), <<>>))
           [] Head(tokens).kind = "{" ->
                 (IF Len(tokens) >= 2 /\ tokens[2].kind = "}"
                    THEN Parsed(JsonObject(EmptyMap), SubSeq(tokens, 3, Len(tokens)))
                  ELSE ParseMembers(Tail(tokens), EmptyMap))
           [] OTHER -> ParseError

\* serde_json::from_str::<serde_json::Value>(s): the value, or None when the
\* text is no JSON document or has tokens after the value.
JsonFromStr(s) ==
    LET parsed == ParseValue(s)
    IN  IF parsed.ok /\ parsed.rest = <<>> THEN Some(parsed.value) ELSE None

\* Arguments of a tool call: the object {"path":"a"}, its text, and the text
\* cut off after the colon.
PathArguments == JsonObject([path |-> JsonString("a")])
PathArgumentsText ==
    <<LBrace, Token("string", "path"), Colon, Token("string", "a"), RBrace>>
CutOffArgumentsText == <<LBrace, Token("string", "path"), Colon>>

\* ContentBlock
TextBlock(text) == [type |-> "Text", text |-> text]
ToolUseBlock(id, name, input) == [type |-> "ToolUse", id |-> id, name |-> name, input |-> input]
ToolResultBlock(tool_use_id, content, is_error) ==
    [type |-> "ToolResult", tool_use_id |-> tool_use_id, content |-> content,
     is_error |-> is_error]
ImageBlock(source) == [type |-> "Image", source |-> source]
\* ImageSource
Base64(media_type, data) == [type |-> "base64", media_type |-> media_type, data |-> data]
Url(url) == [type |-> "url", url |-> url]

\* AnthropicResponse
ARText(text) == [type |-> "text", text |-> text]
ARToolUse(id, name, input) == [type |-> "tool_use", id |-> id, name |-> name, input |-> input]
ARToolResult(tool_use_id, content, is_error) ==
    [type |-> "tool_result", tool_use_id |-> tool_use_id, content |-> content,
     is_error |-> is_error]
ARImage(media_type, data) ==
    [type |-> "image",
     source |-> [source_type |-> "base64", media_type |-> media_type, data |-> data]]
AResponse(id, content, stop_reason, usage, model) ==
    [kind |-> "response", id |-> id, content |-> content, stop_reason |-> stop_reason,
     usage |-> usage, model |-> model]

AnthropicReasons == {"end_turn", "max_tokens", "stop_sequence", "tool_use", "refusal"}

AnthropicResponses ==
    {AResponse("msg_1", c, r, u, "claude-sonnet-4-20250514") :
        c \in {<<>>, <<ARText("hi")>>,
               <<ARText("hi"), ARToolUse("toolu_1", "read_file", PathArguments)>>},
        r \in {None} \cup {Some(x) : x \in AnthropicReasons},
        u \in {Usage(7, 3), Usage(0, 0)}}

\* OpenAIResponse
ORToolCall(id, name, arguments) ==
    [id |-> id, function |-> [name |-> name, arguments |-> arguments]]
ORMessage(content, tool_calls) == [content |-> content, tool_calls |-> tool_calls]
ORChoice(message, finish_reason) == [message |-> message, finish_reason |-> finish_reason]
OResponse(id, choices, usage, model) ==
    [kind |-> "response", id |-> id, choices |-> choices, usage |-> usage, model |-> model]

OpenAIReasons == {"stop", "length", "tool_calls", "content_filter"}

OpenAIMessages ==
    {ORMessage(Some("hi"), None),
     ORMessage(Some(""), None),
     ORMessage(None, Some(<<ORToolCall("call_1", "read_file", PathArgumentsText)>>)),
     ORMessage(Some("hi"), Some(<<ORToolCall("call_1", "read_file", CutOffArgumentsText)>>))}

OpenAIResponses ==
    {OResponse("chatcmpl_1", ch, u, "gpt-4o-2024-08-06") :
        ch \in {<<>>} \cup
               {<<ORChoice(m, f)>> : m \in OpenAIMessages,
                                     f \in {None} \cup {Some(x) : x \in OpenAIReasons}},
        u \in {None, Some([prompt_tokens |-> 7, completion_tokens |-> 3,
                           total_tokens |-> 10])}}

\* The bodies a 2xx response to chat may carry.
ChatBodies(v) ==
    (IF v = "anthropic" THEN AnthropicResponses ELSE OpenAIResponses) \cup {Undecodable}

\* response.json::<AnthropicResponse / OpenAIResponse>().is_ok()
Decodes(b) == b.kind = "response"

\* stop_reason of AnthropicProvider::convert_response
AnthropicResponseStopReason(r) ==
    CASE r = "end_turn" -> "EndTurn"
      [] r = "max_tokens" -> "MaxTokens"
      [] r = "stop_sequence" -> "StopSequence"
      [] r = "tool_use" -> "ToolUse"
      [] OTHER -> "EndTurn"

AnthropicConvertBlock(b) ==
    CASE b.type = "text" -> TextBlock(b.text)
      [] b.type = "image" -> ImageBlock(Base64(b.source.media_type, b.source.data))
      [] b.type = "tool_use" -> ToolUseBlock(b.id, b.name, b.input)
      [] b.type = "tool_result" -> ToolResultBlock(b.tool_use_id, b.content, b.is_error)

\* AnthropicProvider::convert_response
AnthropicConvertResponse(r) ==
    [id |-> r.id,
     content |-> [k \in DOMAIN r.content |-> AnthropicConvertBlock(r.content[k])],
     stop_reason |-> IF IsSome(r.stop_reason)
                       THEN Some(AnthropicResponseStopReason(Unwrap(r.stop_reason)))
                       ELSE None,
     usage |-> Usage(r.usage.input_tokens, r.usage.output_tokens),
     model |-> r.model]

\* A mapping that has no arm for "length".
OpenAIResponseStopReasonNoLength(r) ==
    CASE r = "stop" -> "EndTurn"
      [] r = "tool_calls" -> "ToolUse"
      [] OTHER -> "EndTurn"

\* stop_reason of OpenAIProvider::convert_response
OpenAIResponseStopReason(r) ==
    CASE r = "stop" -> "EndTurn"
      [] r = "length" -> "MaxTokens"
      [] r = "tool_calls" -> "ToolUse"
      [] OTHER -> "EndTurn"

\* One tool call of the message: its arguments are parsed, and Null stands
\* in for arguments that do not parse (unwrap_or_default).
OpenAIConvertToolCall(tc) ==
    ToolUseBlock(tc.id, tc.function.name,
                 IF IsSome(JsonFromStr(tc.function.arguments))
                    THEN Unwrap(JsonFromStr(tc.function.arguments)) ELSE JsonNull)

\* `content` of OpenAIProvider::convert_response for the first choice's message.
OpenAIConvertMessage(msg) ==
    (IF IsSome(msg.content) /\ Unwrap(msg.content) # ""
        THEN <<TextBlock(Unwrap(msg.content))>> ELSE <<>>)
    \o (IF IsSome(msg.tool_calls)
           THEN [k \in DOMAIN Unwrap(msg.tool_calls) |->
                    OpenAIConvertToolCall(Unwrap(msg.tool_calls)[k])]
           ELSE <<>>)

\* OpenAIProvider::convert_response
OpenAIConvertResponse(r) ==
    [id |-> r.id,
     content |-> IF r.choices # <<>> THEN OpenAIConvertMessage(r.choices[1].message)
                 ELSE <<>>,
     stop_reason |-> IF r.choices # <<>> /\ IsSome(r.choices[1].finish_reason)
                       THEN Some(OpenAIResponseStopReason(Unwrap(r.choices[1].finish_reason)))
                       ELSE None,
     usage |-> IF IsSome(r.usage)
                 THEN Usage(Unwrap(r.usage).prompt_tokens, Unwrap(r.usage).completion_tokens)
                 ELSE Usage(0, 0),
     model |-> r.model]

convert_response(v, r) ==
    IF v = "anthropic" THEN AnthropicConvertResponse(r) ELSE OpenAIConvertResponse(r)

(***************************************************************************)
(* The event channel of send_message_stream.                               *)
(***************************************************************************)
StreamEvent(type, index, data) == [type |-> type, index |-> index, data |-> data]
Done == StreamEvent("Done", 0, <<>>)

BlockType(kind) ==
    CASE kind = "Text" -> "text"
      [] kind = "ToolUse" -> "tool_use"
      [] kind = "Image" -> "image"
      [] kind = "ToolResult" -> "tool_result"

\* StreamEvent::from_chunk
from_chunk(chunk) ==
    CASE chunk.type = "MessageStart" -> StreamEvent("MessageStart", 0, chunk.data)
      [] chunk.type = "ContentBlockStart" ->
            StreamEvent("ContentBlockStart", chunk.index, <<BlockType(chunk.kind)>>)
      [] chunk.type = "ContentBlockDelta" ->
            (IF chunk.kind = "TextDelta"
                THEN StreamEvent("TextDelta", chunk.index, chunk.data)
                ELSE StreamEvent("ToolUseDelta", chunk.index, chunk.data))
      [] chunk.type = "ContentBlockStop" -> StreamEvent("ContentBlockStop", chunk.index, <<>>)
      [] chunk.type = "MessageDelta" -> StreamEvent("MessageDelta", 0, chunk.stop)
      [] chunk.type = "MessageStop" -> Done
      [] chunk.type = "Error" -> StreamEvent("Error", 0, chunk.data)
      [] chunk.type = "Ping" -> Done

\* app.emit(event_name, event): the event reaches the channel unless emit fails.
Emit(channel, event, ok) == IF ok THEN Append(channel, event) ELSE channel

\* ProviderError::StreamError(e.to_string()), as displayed.
StreamErrorText == "Stream error: connection reset"

(***************************************************************************)
(* The transport: how the bytes of the body fall into chunks.              *)
(***************************************************************************)
\* Where a chunk boundary may cut a line: inside "data: ", inside the
\* payload, or between the payload and the line break.
SplitPoints == {"prefix", "payload", "eol"}

\* The first part of a cut line, as text.lines() of its chunk gives it.
HeadPiece(line, at) ==
    CASE at = "prefix" -> [pre |-> FALSE, payload |-> Truncated]
      [] at = "payload" -> [pre |-> line.pre, payload |-> Truncated]
      [] at = "eol" -> line

\* The rest of a cut line, as text.lines() of the next chunk gives it.
TailPiece == [pre |-> FALSE, payload |-> Remainder]

\* The lines text.lines() gives for a chunk that brings the rest of the line
\* `before` (if any), the whole lines ws and the first part of the line
\* `after` (if any).  A cut line is <<line, split point>>.
ChunkText(before, ws, after) ==
    (IF IsSome(before) THEN <<TailPiece>> ELSE <<>>)
    \o ws
    \o (IF IsSome(after) THEN <<HeadPiece(Unwrap(after)[1], Unwrap(after)[2])>> ELSE <<>>)

\* Lines begun so far.
Started == Len(sent) + Len(partial)

(***************************************************************************)
(* The provider's configuration: construction, mutators, and the request   *)
(* a call builds from it.                                                  *)
(***************************************************************************)
\* f32, in tenths; NaN is the one value no comparison holds for.
F32(tenths) == [nan |-> FALSE, tenths |-> tenths]
NaN == [nan |-> TRUE, tenths |-> 0]
F32Lt(a, b) == ~a.nan /\ ~b.nan /\ a.tenths < b.tenths

\* f32::clamp(self, min, max)
F32Clamp(x, min, max) ==
    IF F32Lt(x, min) THEN min
    ELSE IF F32Lt(max, x) THEN max
    ELSE x

DEFAULT_MAX_TOKENS == 4096
DEFAULT_TEMPERATURE == F32(7)

\* AnthropicProvider::new / OpenAIProvider::new
NewProvider(v) ==
    [model |-> DefaultModel(v), system_prompt |-> None,
     max_tokens |-> DEFAULT_MAX_TOKENS, temperature |-> DEFAULT_TEMPERATURE]

\* The mutators of the Provider trait.
set_model(p, model) == [p EXCEPT !.model = model]
set_system_prompt(p, prompt) == [p EXCEPT !.system_prompt = prompt]
set_max_tokens(p, max_tokens) == [p EXCEPT !.max_tokens = max_tokens]
AnthropicSetTemperature(p, temperature) ==
    [p EXCEPT !.temperature = F32Clamp(temperature, F32(0), F32(10))]
OpenAISetTemperature(p, temperature) ==
    [p EXCEPT !.temperature = F32Clamp(temperature, F32(0), F32(20))]
set_temperature(v, p, temperature) ==
    IF v = "anthropic" THEN AnthropicSetTemperature(p, temperature)
    ELSE OpenAISetTemperature(p, temperature)

\* ProviderConfig
ProviderConfig(name, model, max_tokens, temperature) ==
    [name |-> name, model |-> model, max_tokens |-> max_tokens, temperature |-> temperature]

\* create_provider(config), for the two known names
create_provider(config) ==
    LET p0 == NewProvider(config.name)
        p1 == IF IsSome(config.model) THEN set_model(p0, Unwrap(config.model)) ELSE p0
        p2 == IF IsSome(config.max_tokens)
                THEN set_max_tokens(p1, Unwrap(config.max_tokens)) ELSE p1
    IN  IF IsSome(config.temperature)
          THEN set_temperature(config.name, p2, Unwrap(config.temperature)) ELSE p2

\* Values callers configure.
Models == {"model-a", "model-b"}
Prompts == {None, Some("be brief")}
TokenLimits == {1, DEFAULT_MAX_TOKENS}
Temperatures == {F32(t) : t \in {-5, 0, 7, 10, 15, 20, 25}} \cup {NaN}

\* The request chat / chat_stream builds from the provider's fields.  `system`
\* is the system message of the conversation, if it has one: the configured
\* prompt replaces it.
BuildRequest(p, stream, system) ==
    [model |-> p.model,
     max_tokens |-> p.max_tokens,
     temperature |-> p.temperature,
     system |-> IF IsSome(p.system_prompt) THEN p.system_prompt ELSE system,
     stream |-> stream]

(***************************************************************************)
(* Request encoding: convert_messages and extract_system_prompt of the two *)
(* providers.                                                              *)
(***************************************************************************)
Roles == {"System", "User", "Assistant", "Tool"}

\* MessageContent
TextContent(content) == [kind |-> "Text", content |-> content]
BlocksContent(content) == [kind |-> "Blocks", content |-> content]
\* ChatMessage
ChatMessage(role, content) == [role |-> role, content |-> content]

\* filter_map(Text { text } => Some(text)).collect().join("")
RECURSIVE JoinText(_)
JoinText(blocks) ==
    IF blocks = <<>> THEN ""
    ELSE (IF Head(blocks).type = "Text" THEN Head(blocks).text ELSE "") \o JoinText(Tail(blocks))

\* The text of a System message, as both encoders take it.
SystemText(m) ==
    IF m.content.kind = "Text" THEN m.content.content ELSE JoinText(m.content.content)

\* AnthropicMessage and AnthropicContent
AnthropicMessage(role, content) == [role |-> role, content |-> content]
AnthropicText(text) == [kind |-> "Text", text |-> text]
AnthropicBlocks(blocks) == [kind |-> "Blocks", blocks |-> blocks]

AnthropicRole(role) ==
    CASE role \in {"User", "Tool"} -> "user"
      [] role = "Assistant" -> "assistant"
      [] role = "System" -> "user"

AnthropicEncodeBlock(b) ==
    CASE b.type = "Text" -> ARText(b.text)
      [] b.type = "Image" ->
            (IF b.source.type = "base64" THEN ARImage(b.source.media_type, b.source.data)
             ELSE ARText("[Image URL: " \o b.source.url \o "]"))
      [] b.type = "ToolUse" -> ARToolUse(b.id, b.name, b.input)
      [] b.type = "ToolResult" -> ARToolResult(b.tool_use_id, b.content, b.is_error)

AnthropicEncodeMessage(m) ==
    AnthropicMessage(
        AnthropicRole(m.role),
        IF m.content.kind = "Text" THEN AnthropicText(m.content.content)
        ELSE AnthropicBlocks([k \in DOMAIN m.content.content |->
                                 AnthropicEncodeBlock(m.content.content[k])]))

\* AnthropicProvider::convert_messages
AnthropicConvertMessages(messages) ==
    LET kept == SelectSeq(messages, LAMBDA m : m.role # "System")
    IN  [k \in DOMAIN kept |-> AnthropicEncodeMessage(kept[k])]

\* An extract_system_prompt that looks at the conversation first.
ExtractSystemPromptConversationFirst(p, messages) ==
    LET system == SelectSeq(messages, LAMBDA m : m.role = "System")
    IN  IF system # <<>> THEN Some(SystemText(Head(system)))
        ELSE p.system_prompt

\* AnthropicProvider::extract_system_prompt
extract_system_prompt(p, messages) ==
    LET system == SelectSeq(messages, LAMBDA m : m.role = "System")
    IN  IF IsSome(p.system_prompt) THEN p.system_prompt
        ELSE IF system # <<>> THEN Some(SystemText(Head(system)))
        ELSE None

\* OpenAIMessage, OpenAIContent and OpenAIContentPart
OpenAIMessage(role, content, tool_calls, tool_call_id) ==
    [role |-> role, content |-> content, tool_calls |-> tool_calls,
     tool_call_id |-> tool_call_id, name |-> None]
OpenAIText(text) == [kind |-> "Text", text |-> text]
OpenAIParts(parts) == [kind |-> "Parts", parts |-> parts]
TextPart(text) == [type |-> "text", text |-> text]
ImageUrlPart(url) == [type |-> "image_url", url |-> url]

OpenAIEncodePart(b) ==
    IF b.type = "Text" THEN TextPart(b.text)
    ELSE IF b.source.type = "base64"
      THEN ImageUrlPart("data:" \o b.source.media_type \o ";base64," \o b.source.data)
    ELSE ImageUrlPart(b.source.url)

\* Role::System
OpenAISystemMessages(p, m) ==
    IF IsSome(p.system_prompt) THEN <<>>
    ELSE <<OpenAIMessage("system", Some(OpenAIText(SystemText(m))), None, None)>>

\* Role::User
OpenAIUserMessages(m) ==
    IF m.content.kind = "Text"
      THEN <<OpenAIMessage("user", Some(OpenAIText(m.content.content)), None, None)>>
    ELSE
      LET content == m.content.content
          tool_results == SelectSeq(content, LAMBDA b : b.type = "ToolResult")
          shown == SelectSeq(content, LAMBDA b : b.type \in {"Text", "Image"})
          parts == [k \in DOMAIN shown |-> OpenAIEncodePart(shown[k])]
      IN  IF tool_results # <<>>
            THEN [k \in DOMAIN tool_results |->
                     OpenAIMessage("tool", Some(OpenAIText(tool_results[k].content)), None,
                                   Some(tool_results[k].tool_use_id))]
          ELSE <<OpenAIMessage(
                   "user",
                   Some(IF Len(parts) = 1 /\ parts[1].type = "text"
                          THEN OpenAIText(parts[1].text) ELSE OpenAIParts(parts)),
                   None, None)>>

\* Role::Assistant
OpenAIAssistantMessages(m) ==
    IF m.content.kind = "Text"
      THEN <<OpenAIMessage("assistant", Some(OpenAIText(m.content.content)), None, None)>>
    ELSE
      LET content == m.content.content
          text == JoinText(content)
          uses == SelectSeq(content, LAMBDA b : b.type = "ToolUse")
          tool_calls == [k \in DOMAIN uses |->
                            ORToolCall(uses[k].id, uses[k].name, JsonToString(uses[k].input))]
      IN  <<OpenAIMessage("assistant",
                          IF text = "" THEN None ELSE Some(OpenAIText(text)),
                          IF tool_calls = <<>> THEN None ELSE Some(tool_calls),
                          None)>>

\* The match on msg.role: what one message of the conversation pushes.
OpenAIEncodeMessage(p, m) ==
    CASE m.role = "System" -> OpenAISystemMessages(p, m)
      [] m.role = "User" -> OpenAIUserMessages(m)
      [] m.role = "Assistant" -> OpenAIAssistantMessages(m)
      [] m.role = "Tool" -> <<>>

RECURSIVE OpenAIEncodeAll(_, _)
OpenAIEncodeAll(p, messages) ==
    IF messages = <<>> THEN <<>>
    ELSE OpenAIEncodeMessage(p, Head(messages)) \o OpenAIEncodeAll(p, Tail(messages))

\* OpenAIProvider::convert_messages
OpenAIConvertMessages(p, messages) ==
    (IF IsSome(p.system_prompt)
        THEN <<OpenAIMessage("system", Some(OpenAIText(Unwrap(p.system_prompt))), None, None)>>
        ELSE <<>>)
    \o OpenAIEncodeAll(p, messages)

\* `system` and `messages` of the request chat / chat_stream builds.
EncodeRequest(v, p, messages) ==
    IF v = "anthropic"
      THEN [system |-> extract_system_prompt(p, messages),
            messages |-> AnthropicConvertMessages(messages)]
    ELSE [system |-> None, messages |-> OpenAIConvertMessages(p, messages)]

(***************************************************************************)
(* Actions                                                                 *)
(***************************************************************************)
\* No conversation is being encoded.
EncodeIdle == conversation = <<>> /\ encoded = None /\ returned = None
\* AppState::new(), no command called.
RegistryIdle == providers = <<>> /\ active_provider = None /\ outcome = None
ToolIdle == fs = <<>> /\ log = <<>>
LockIdle == rwlocks = <<>> /\ tasks = <<>> /\ env = <<>>
TerminalIdle == sessions = <<>> /\ calls = <<>>
LaterIdle == ToolIdle /\ LockIdle /\ TerminalIdle
OtherIdle == EncodeIdle /\ output = None /\ RegistryIdle /\ LaterIdle

Init ==
    /\ pc = "idle"
    /\ vendor \in Vendors
    /\ op \in Ops
    /\ status = 0
    /\ result = NoResult
    /\ body = NoBody
    /\ response = None
    /\ requests = 0
    /\ sent = <<>>
    /\ partial = None
    /\ transport = "open"
    /\ buf = <<>>
    /\ decoded = <<>>
    /\ yielded = <<>>
    /\ emitted = <<>>
    /\ emitFailed = FALSE
    /\ provider = NewProvider(vendor)
    /\ phase = "idle"
    /\ request = None
    /\ snapshot = NewProvider(vendor)
    /\ captured = None
    /\ started = None
    /\ OtherIdle

streamVars == <<sent, partial, transport, buf, decoded, yielded, emitted, emitFailed>>

\* self.client.post(..).json(&request).send()
SendRequest ==
    /\ pc = "idle"
    /\ pc' = "awaiting"
    /\ requests' = requests + 1
    /\ UNCHANGED <<body, response, configVars, otherVars>>
    /\ UNCHANGED <<vendor, op, status, result, streamVars>>

\* A call that answers a failed send with a second request.
SendFailsRetry ==
    /\ pc = "awaiting"
    /\ IF requests < 2
         THEN /\ requests' = requests + 1
              /\ UNCHANGED <<pc, result>>
         ELSE /\ result' = RequestFailed
              /\ pc' = "done"
              /\ UNCHANGED requests
    /\ UNCHANGED <<body, response, configVars, otherVars>>
    /\ UNCHANGED <<vendor, op, status, streamVars>>

\* .send().await? fails: connection, TLS, timeout.
SendFails ==
    /\ pc = "awaiting"
    /\ result' = RequestFailed
    /\ pc' = "done"
    /\ UNCHANGED <<body, response, configVars, otherVars>>
    /\ UNCHANGED <<vendor, op, status, requests, streamVars>>

\* A response with a non-2xx status: the body is read as text and the error
\* is built from it.
RespondError ==
    /\ pc = "awaiting"
    /\ \E st \in Statuses, error_text \in ErrorBodies :
        /\ ~IsSuccess(st)
        /\ status' = st
        /\ body' = error_text
        /\ result' = StatusError(vendor, op, st, error_text)
    /\ pc' = "done"
    /\ UNCHANGED <<vendor, op, requests, response, streamVars, configVars, otherVars>>

\* chat: a 2xx response; response.json().await? decodes the body or fails,
\* and convert_response builds the ChatResponse.
RespondChat ==
    /\ pc = "awaiting"
    /\ op = "chat"
    /\ \E st \in Statuses, b \in ChatBodies(vendor) :
        /\ IsSuccess(st)
        /\ status' = st
        /\ body' = b
        /\ IF Decodes(b)
             THEN /\ result' = OkResult
                  /\ response' = Some(convert_response(vendor, b))
             ELSE /\ result' = RequestFailed
                  /\ response' = None
    /\ pc' = "done"
    /\ UNCHANGED <<vendor, op, requests, streamVars, configVars, otherVars>>

\* chat_stream: a 2xx response; the stream is handed to send_message_stream.
RespondStream ==
    /\ pc = "awaiting"
    /\ op = "chat_stream"
    /\ \E st \in Statuses :
        /\ IsSuccess(st)
        /\ status' = st
    /\ result' = OkResult
    /\ pc' = "streaming"
    /\ UNCHANGED <<body, response, configVars, otherVars>>
    /\ UNCHANGED <<vendor, op, requests, streamVars>>

\* The byte stream yields Ok(bytes): the closure decodes the chunk into a
\* list of ChatChunks, which flatten() hands out one by one.
RecvChunk ==
    /\ pc = "streaming"
    /\ buf = <<>>
    /\ transport = "open"
    /\ \E ws \in SeqsUpTo(Lines(vendor), MaxLines - Started),
          cut \in {None} \cup {Some(<<l, at>>) : l \in Lines(vendor), at \in SplitPoints} :
        LET text == ChunkText(partial, ws, cut)
        IN  /\ text # <<>>
            /\ IsSome(cut) => Started + Len(ws) < MaxLines
            /\ sent' = sent \o (IF IsSome(partial) THEN <<Unwrap(partial)[1]>> ELSE <<>>) \o ws
            /\ partial' = cut
            /\ buf' = DecodeChunk(vendor, text)
            /\ decoded' = decoded \o DecodeChunk(vendor, text)
    /\ UNCHANGED <<body, response, configVars, otherVars>>
    /\ UNCHANGED <<pc, vendor, op, status, result, requests, transport, yielded,
                   emitted, emitFailed>>

\* stream.next() returns Some(Ok(chunk)): the event is emitted; a failing
\* emit breaks the loop, and Done is emitted after the loop.
NextOk ==
    /\ pc = "streaming"
    /\ buf # <<>>
    /\ yielded' = Append(yielded, Ok(Head(buf)))
    /\ buf' = Tail(buf)
    /\ \E ok \in BOOLEAN, okDone \in BOOLEAN :
        IF ok
          THEN /\ emitted' = Emit(emitted, from_chunk(Head(buf)), TRUE)
               /\ okDone
               /\ UNCHANGED <<pc, emitFailed>>
          ELSE /\ emitted' = Emit(emitted, Done, okDone)
               /\ emitFailed' = TRUE
               /\ pc' = "done"
    /\ UNCHANGED <<body, response, configVars, otherVars>>
    /\ UNCHANGED <<vendor, op, status, result, requests, sent, partial, transport,
                   decoded>>

\* A stream that drops the transport's error: the loop ends as if the body
\* had ended, and only Done is emitted.
NextErrSwallowed ==
    /\ pc = "streaming"
    /\ buf = <<>>
    /\ transport = "open"
    /\ transport' = "failed"
    /\ \E okDone \in BOOLEAN :
        /\ emitted' = Emit(emitted, Done, okDone)
        /\ emitFailed' = (emitFailed \/ ~okDone)
    /\ pc' = "done"
    /\ UNCHANGED <<body, response, configVars, otherVars>>
    /\ UNCHANGED <<vendor, op, status, result, requests, sent, partial, buf, decoded,
                   yielded>>

\* The byte stream yields Err(e), mapped to ProviderError::StreamError, and
\* stream.next() returns Some(Err(e)): an Error event is emitted, the loop
\* breaks, and Done is emitted after the loop.
NextErr ==
    /\ pc = "streaming"
    /\ buf = <<>>
    /\ transport = "open"
    /\ transport' = "failed"
    /\ yielded' = Append(yielded, Err(StreamErrorText))
    /\ \E ok \in BOOLEAN, okDone \in BOOLEAN :
        /\ emitted' = Emit(Emit(emitted, StreamEvent("Error", 0, <<StreamErrorText>>), ok),
                           Done, okDone)
        /\ emitFailed' = (emitFailed \/ ~ok \/ ~okDone)
    /\ pc' = "done"
    /\ UNCHANGED <<body, response, configVars, otherVars>>
    /\ UNCHANGED <<vendor, op, status, result, requests, sent, partial, buf, decoded>>

\* The byte stream ends and stream.next() returns None: the loop ends, and
\* Done is emitted after it.
NextNone ==
    /\ pc = "streaming"
    /\ buf = <<>>
    /\ transport = "open"
    /\ transport' = "ended"
    /\ \E okDone \in BOOLEAN :
        /\ emitted' = Emit(emitted, Done, okDone)
        /\ emitFailed' = (emitFailed \/ ~okDone)
    /\ pc' = "done"
    /\ UNCHANGED <<body, response, configVars, otherVars>>
    /\ UNCHANGED <<vendor, op, status, result, requests, sent, partial, buf, decoded,
                   yielded>>

Next ==
    \/ SendRequest
    \/ SendFails
    \/ RespondError
    \/ RespondChat
    \/ RespondStream
    \/ RecvChunk
    \/ NextOk
    \/ NextErr
    \/ NextNone

Spec == Init /\ [][Next]_vars

(***************************************************************************)
(* Calls and mutators on one provider.                                     *)
(***************************************************************************)
callVars == <<pc, vendor, op, status, result, body, response, requests, sent, partial,
              transport, buf, decoded, yielded, emitted, emitFailed>>

\* The provider create_provider returns for a configuration.
ConfigInit ==
    /\ pc = "idle"
    /\ vendor \in Vendors
    /\ op = "chat_stream"
    /\ status = 0
    /\ result = NoResult
    /\ body = NoBody
    /\ response = None
    /\ requests = 0
    /\ sent = <<>>
    /\ partial = None
    /\ transport = "open"
    /\ buf = <<>>
    /\ decoded = <<>>
    /\ yielded = <<>>
    /\ emitted = <<>>
    /\ emitFailed = FALSE
    /\ \E model \in {None} \cup {Some(m) : m \in Models},
          max_tokens \in {None, Some(1)},
          temperature \in {None} \cup {Some(t) : t \in Temperatures} :
          provider = create_provider(ProviderConfig(vendor, model, max_tokens, temperature))
    /\ phase = "idle"
    /\ request = None
    /\ snapshot = provider
    /\ captured = None
    /\ started = None
    /\ OtherIdle

\* A mutator takes &mut self: it cannot run while the future of a call,
\* which borrows &self, is alive.  The stream chat_stream returned borrows
\* nothing of the provider.
SetModel ==
    /\ phase # "awaiting"
    /\ \E model \in Models : provider' = set_model(provider, model)
    /\ UNCHANGED <<callVars, otherVars, phase, request, snapshot, captured, started>>

SetSystemPrompt ==
    /\ phase # "awaiting"
    /\ \E prompt \in Prompts : provider' = set_system_prompt(provider, prompt)
    /\ UNCHANGED <<callVars, otherVars, phase, request, snapshot, captured, started>>

SetMaxTokens ==
    /\ phase # "awaiting"
    /\ \E max_tokens \in TokenLimits : provider' = set_max_tokens(provider, max_tokens)
    /\ UNCHANGED <<callVars, otherVars, phase, request, snapshot, captured, started>>

SetTemperature ==
    /\ phase # "awaiting"
    /\ \E temperature \in Temperatures :
          provider' = set_temperature(vendor, provider, temperature)
    /\ UNCHANGED <<callVars, otherVars, phase, request, snapshot, captured, started>>

\* chat / chat_stream is called: the request is built from the fields and sent.
StartCall ==
    /\ phase = "idle"
    /\ \E stream \in BOOLEAN, system \in {None, Some("from the conversation")} :
          request' = Some(BuildRequest(provider, stream, system))
    /\ snapshot' = provider
    /\ captured' = None
    /\ started' = None
    /\ phase' = "awaiting"
    /\ UNCHANGED <<callVars, otherVars, provider>>

\* chat returns, or chat_stream fails.
CallReturns ==
    /\ phase = "awaiting"
    /\ phase' = "idle"
    /\ UNCHANGED <<callVars, otherVars, provider, request, snapshot, captured, started>>

\* chat_stream returns the stream; the OpenAI stream holds a clone of the model.
StreamReturned ==
    /\ phase = "awaiting"
    /\ Unwrap(request).stream
    /\ captured' = IF vendor = "openai" THEN Some(provider.model) ELSE None
    /\ phase' = "streaming"
    /\ UNCHANGED <<callVars, otherVars, provider, request, snapshot, started>>

\* A stream that reads the provider's model when it yields.
StreamStartsLive ==
    /\ phase = "streaming"
    /\ started' = Some(IF vendor = "openai"
                         THEN MessageStart("chatcmpl_1", provider.model)
                         ELSE MessageStart("msg_1", Unwrap(request).model))
    /\ UNCHANGED <<callVars, otherVars, provider, phase, request, snapshot, captured>>

\* The stream yields a MessageStart: OpenAI's names the model the stream
\* holds, Anthropic's the model the vendor's frame names.
StreamStarts ==
    /\ phase = "streaming"
    /\ started' = Some(IF vendor = "openai"
                         THEN MessageStart("chatcmpl_1", Unwrap(captured))
                         ELSE MessageStart("msg_1", Unwrap(request).model))
    /\ UNCHANGED <<callVars, otherVars, provider, phase, request, snapshot, captured>>

\* The stream ends or is dropped.
StreamEnds ==
    /\ phase = "streaming"
    /\ phase' = "idle"
    /\ UNCHANGED <<callVars, otherVars, provider, request, snapshot, captured, started>>

ConfigNext ==
    \/ SetModel
    \/ SetSystemPrompt
    \/ SetMaxTokens
    \/ SetTemperature
    \/ StartCall
    \/ CallReturns
    \/ StreamReturned
    \/ StreamStarts
    \/ StreamEnds

ConfigSpec == ConfigInit /\ [][ConfigNext]_vars

(***************************************************************************)
(* Encoding a conversation into a vendor request, and reading the encoded  *)
(* messages back.                                                          *)
(***************************************************************************)
\* Number of messages of a conversation.
MaxMessages == 2

\* No call is under way.
CallIdle ==
    /\ pc = "idle"
    /\ op = "chat"
    /\ status = 0
    /\ result = NoResult
    /\ body = NoBody
    /\ requests = 0
    /\ sent = <<>>
    /\ partial = None
    /\ transport = "open"
    /\ buf = <<>>
    /\ decoded = <<>>
    /\ yielded = <<>>
    /\ emitted = <<>>
    /\ emitFailed = FALSE
ConfigIdle ==
    /\ phase = "idle"
    /\ request = None
    /\ snapshot = provider
    /\ captured = None
    /\ started = None

\* Arguments of ToolUse blocks.
ToolInputs ==
    {JsonObject(EmptyMap),
     JsonObject([a |-> JsonNumber(1)]),
     JsonObject([path |-> JsonString("a"), b |-> JsonObject([a |-> JsonNull]),
                 a |-> JsonNumber(1)])}

\* Contents a message of any role may hold.
Contents ==
    {TextContent("a"),
     BlocksContent(<<TextBlock("a"), TextBlock("b")>>),
     BlocksContent(<<ToolResultBlock("toolu_1", "out", None)>>),
     BlocksContent(<<TextBlock("a"), ToolResultBlock("toolu_1", "out", None),
                     ToolResultBlock("toolu_2", "failed", Some(TRUE))>>),
     BlocksContent(<<ImageBlock(Base64("image/png", "AAAA")),
                     ImageBlock(Url("http://host/a.png"))>>),
     BlocksContent(<<TextBlock("a"), ToolUseBlock("toolu_1", "read_file", PathArguments)>>)}

ChatMessages ==
    {ChatMessage(role, content) : role \in Roles, content \in Contents}
    \cup {ChatMessage("Assistant", BlocksContent(<<ToolUseBlock("toolu_2", "write_file", input)>>)) :
            input \in ToolInputs}

Conversations == SeqsUpTo(ChatMessages, MaxMessages)

\* Role, read from its serialized name.
DecodeRole(role) ==
    CASE role = "system" -> "System"
      [] role = "user" -> "User"
      [] role = "assistant" -> "Assistant"
      [] role = "tool" -> "Tool"

\* An AnthropicMessage read back: its blocks as convert_response reads blocks.
AnthropicDecodeMessage(e) ==
    ChatMessage(DecodeRole(e.role),
                IF e.content.kind = "Text" THEN TextContent(e.content.text)
                ELSE BlocksContent([k \in DOMAIN e.content.blocks |->
                                       AnthropicConvertBlock(e.content.blocks[k])]))

OpenAIDecodePart(part) ==
    IF part.type = "text" THEN TextBlock(part.text) ELSE ImageBlock(Url(part.url))

\* An OpenAIMessage read back: text and tool calls as convert_response reads
\* them, a tool message as the ToolResult of its tool_call_id.
OpenAIDecodeMessage(e) ==
    ChatMessage(
        DecodeRole(e.role),
        IF e.role = "tool"
          THEN BlocksContent(<<ToolResultBlock(Unwrap(e.tool_call_id),
                                               Unwrap(e.content).text, None)>>)
        ELSE IF IsSome(e.content) /\ Unwrap(e.content).kind = "Parts"
          THEN BlocksContent([k \in DOMAIN Unwrap(e.content).parts |->
                                 OpenAIDecodePart(Unwrap(e.content).parts[k])])
        ELSE IF IsSome(e.content) /\ ~IsSome(e.tool_calls)
          THEN TextContent(Unwrap(e.content).text)
        ELSE BlocksContent(OpenAIConvertMessage(
                 ORMessage(IF IsSome(e.content) THEN Some(Unwrap(e.content).text) ELSE None,
                           e.tool_calls))))

\* The conversation an encoded request reads back as.
DecodeRequest(v, req) ==
    IF v = "anthropic"
      THEN (IF IsSome(req.system)
               THEN <<ChatMessage("System", TextContent(Unwrap(req.system)))>> ELSE <<>>)
           \o [k \in DOMAIN req.messages |-> AnthropicDecodeMessage(req.messages[k])]
    ELSE [k \in DOMAIN req.messages |-> OpenAIDecodeMessage(req.messages[k])]

\* A provider, with or without a configured system prompt, and a conversation.
EncodeInit ==
    /\ CallIdle
    /\ vendor \in Vendors
    /\ response = None
    /\ \E prompt \in Prompts : provider = set_system_prompt(NewProvider(vendor), prompt)
    /\ ConfigIdle
    /\ conversation \in Conversations
    /\ encoded = None
    /\ returned = None
    /\ output = None
    /\ RegistryIdle
    /\ LaterIdle

\* chat / chat_stream builds the request.
Encode ==
    /\ encoded = None
    /\ encoded' = Some(EncodeRequest(vendor, provider, conversation))
    /\ UNCHANGED <<callVars, configVars, laterVars, conversation, returned, output, registryVars>>

\* The encoded messages are read back.
DecodeBack ==
    /\ IsSome(encoded)
    /\ returned = None
    /\ returned' = Some(DecodeRequest(vendor, Unwrap(encoded)))
    /\ UNCHANGED <<callVars, configVars, laterVars, conversation, encoded, output, registryVars>>

EncodeNext ==
    \/ Encode
    \/ DecodeBack

EncodeSpec == EncodeInit /\ [][EncodeNext]_vars

(***************************************************************************)
(* The derivations of ChatResponse: text, tool_calls, has_tool_calls.      *)
(***************************************************************************)
\* Number of content blocks of a response.
MaxBlocks == 3

\* ToolCall
ToolCall(id, name, arguments) == [id |-> id, name |-> name, arguments |-> arguments]

\* A text that holds only the first Text block's text.
ResponseTextFirstOnly(r) ==
    LET texts == SelectSeq(r.content, LAMBDA b : b.type = "Text")
    IN  IF texts = <<>> THEN "" ELSE texts[1].text

\* ChatResponse::text
ResponseText(r) == JoinText(r.content)

\* ChatResponse::tool_calls
ResponseToolCalls(r) ==
    LET uses == SelectSeq(r.content, LAMBDA b : b.type = "ToolUse")
    IN  [k \in DOMAIN uses |-> ToolCall(uses[k].id, uses[k].name, uses[k].input)]

\* ChatResponse::has_tool_calls
has_tool_calls(r) == \E k \in DOMAIN r.content : r.content[k].type = "ToolUse"

\* Blocks the content of a ChatResponse may hold.
ContentBlocks ==
    {TextBlock("a"), TextBlock("b"), TextBlock(""),
     ToolUseBlock("toolu_1", "read_file", PathArguments),
     ToolUseBlock("toolu_2", "write_file", JsonObject(EmptyMap)),
     ImageBlock(Base64("image/png", "AAAA")),
     ToolResultBlock("toolu_1", "out", None)}

ChatResponses ==
    {[id |-> "msg_1", content |-> c, stop_reason |-> None, usage |-> Usage(7, 3),
      model |-> "claude-sonnet-4-20250514"] : c \in SeqsUpTo(ContentBlocks, MaxBlocks)}

\* A ChatResponse in the caller's hands.
OutputInit ==
    /\ CallIdle
    /\ vendor \in Vendors
    /\ response \in {Some(r) : r \in ChatResponses}
    /\ provider = NewProvider(vendor)
    /\ ConfigIdle
    /\ EncodeIdle
    /\ output = None
    /\ RegistryIdle
    /\ LaterIdle

CallText ==
    /\ output' = Some([helper |-> "text", value |-> ResponseText(Unwrap(response))])
    /\ UNCHANGED <<callVars, configVars, laterVars, encodeVars, registryVars>>

CallToolCalls ==
    /\ output' = Some([helper |-> "tool_calls", value |-> ResponseToolCalls(Unwrap(response))])
    /\ UNCHANGED <<callVars, configVars, laterVars, encodeVars, registryVars>>

CallHasToolCalls ==
    /\ output' = Some([helper |-> "has_tool_calls", value |-> has_tool_calls(Unwrap(response))])
    /\ UNCHANGED <<callVars, configVars, laterVars, encodeVars, registryVars>>

OutputNext ==
    \/ CallText
    \/ CallToolCalls
    \/ CallHasToolCalls

OutputSpec == OutputInit /\ [][OutputNext]_vars

(***************************************************************************)
(* The provider registry: AppState and the commands on it.                 *)
(***************************************************************************)
\* Names a command may be given: the two providers and one never registered.
ProviderNames == Vendors \cup {"ollama"}

\* Result<(), String>
OkUnit == [res |-> "Ok", message |-> ""]
ErrString(message) == [res |-> "Err", message |-> message]
NotFound(name) == "Provider '" \o name \o "' not found"

\* AppState::init_providers, with `keys` the vendors whose API key is set.
init_providers(ps, active, keys) ==
    [providers |-> [n \in (DOMAIN ps) \cup keys |->
                       IF n \in keys THEN NewProvider(n) ELSE ps[n]],
     active |-> IF IsSome(active) THEN active
                ELSE IF "anthropic" \in keys THEN Some("anthropic")
                ELSE IF "openai" \in keys THEN Some("openai")
                ELSE None]

\* A set_active_provider that does not look the name up.
SetActiveProviderUnchecked(ps, active, name) ==
    [active |-> Some(name), result |-> OkUnit]

\* AppState::set_active_provider
set_active_provider(ps, active, name) ==
    IF name \in DOMAIN ps
      THEN [active |-> Some(name), result |-> OkUnit]
    ELSE [active |-> active, result |-> ErrString(NotFound(name))]

\* AppState::get_provider and AppState::get_active_provider
get_provider(ps, name) == IF name \in DOMAIN ps THEN Some(ps[name]) ELSE None
get_active_provider(ps, active) ==
    IF IsSome(active) THEN get_provider(ps, Unwrap(active)) ELSE None

\* The set_provider_model command: the registry it leaves and its result.
set_provider_model(ps, name, model) ==
    IF name \notin DOMAIN ps
      THEN [providers |-> ps, result |-> ErrString(NotFound(name))]
    ELSE [providers |-> ps, result |-> OkUnit]

\* The get_providers command: name, is_active and current_model of each entry.
get_providers(ps, active) ==
    [n \in DOMAIN ps |->
        [name |-> n, is_active |-> (active = Some(n)), current_model |-> ps[n].model]]

\* AppState::new()
RegistryInit ==
    /\ CallIdle
    /\ vendor = "anthropic"
    /\ response = None
    /\ provider = NewProvider(vendor)
    /\ ConfigIdle
    /\ EncodeIdle
    /\ output = None
    /\ RegistryIdle
    /\ LaterIdle

InitProviders ==
    \E keys \in SUBSET Vendors :
        LET after == init_providers(providers, active_provider, keys)
        IN  /\ providers' = after.providers
            /\ active_provider' = after.active
            /\ outcome' = Some([command |-> "init_providers", name |-> None, model |-> None,
                                result |-> OkUnit, infos |-> <<>>, request |-> None])
            /\ UNCHANGED <<callVars, configVars, laterVars, encodeVars, output>>

SetActiveProvider ==
    \E name \in ProviderNames :
        LET after == set_active_provider(providers, active_provider, name)
        IN  /\ active_provider' = after.active
            /\ outcome' = Some([command |-> "set_active_provider", name |-> Some(name),
                                model |-> None, result |-> after.result, infos |-> <<>>,
                                request |-> None])
            /\ UNCHANGED <<callVars, configVars, laterVars, encodeVars, output, providers>>

SetProviderModel ==
    \E name \in ProviderNames, model \in Models :
        LET after == set_provider_model(providers, name, model)
        IN  /\ providers' = after.providers
            /\ outcome' = Some([command |-> "set_provider_model", name |-> Some(name),
                                model |-> Some(model), result |-> after.result,
                                infos |-> <<>>, request |-> None])
            /\ UNCHANGED <<callVars, configVars, laterVars, encodeVars, output, active_provider>>

GetProviders ==
    /\ outcome' = Some([command |-> "get_providers", name |-> None, model |-> None,
                        result |-> OkUnit,
                        infos |-> get_providers(providers, active_provider),
                        request |-> None])
    /\ UNCHANGED <<callVars, configVars, laterVars, encodeVars, output, providers, active_provider>>

\* send_message and send_message_stream: the provider named in the request,
\* else the active one, and the request its chat / chat_stream call builds.
SendMessage ==
    \E name \in {None} \cup {Some(n) : n \in ProviderNames}, system \in Prompts,
       stream \in BOOLEAN :
        LET found == IF IsSome(name) THEN get_provider(providers, Unwrap(name))
                     ELSE get_active_provider(providers, active_provider)
        IN  /\ outcome' = Some([command |-> "send_message", name |-> name, model |-> None,
                                result |-> IF IsSome(found) THEN OkUnit
                                           ELSE ErrString("No AI provider configured"),
                                infos |-> <<>>,
                                request |-> IF IsSome(found)
                                              THEN Some(BuildRequest(Unwrap(found), stream, system))
                                              ELSE None])
            /\ UNCHANGED <<callVars, configVars, laterVars, encodeVars, output, providers, active_provider>>

RegistryNext ==
    \/ InitProviders
    \/ SetActiveProvider
    \/ SetProviderModel
    \/ GetProviders
    \/ SendMessage

RegistrySpec == RegistryInit /\ [][RegistryNext]_vars

(***************************************************************************)
(* The tools: file_ops, search and the executor that routes tool calls.    *)
(***************************************************************************)
\* Number of commands, and of tool calls executed, in one behaviour.
MaxCalls == 2

\* The file system: every path is absent, a file with its content, or a
\* directory.  "d/a.txt" lies in "d"; "b" and "d" lie in the working
\* directory.
Paths == {"b", "d", "d/a.txt"}
Absent == [kind |-> "absent", content |-> ""]
FileNode(content) == [kind |-> "file", content |-> content]
DirNode == [kind |-> "dir", content |-> ""]
Parent(path) == IF path = "d/a.txt" THEN "d" ELSE ""
Children(f, path) ==
    IF path = "d" /\ f["d/a.txt"].kind # "absent" THEN <<"d/a.txt">> ELSE <<>>

\* Path::exists, Path::is_file, Path::is_dir
Exists(f, path) == path \in Paths /\ f[path].kind # "absent"
IsFile(f, path) == path \in Paths /\ f[path].kind = "file"
IsDir(f, path) == path \in Paths /\ f[path].kind = "dir"

\* ToolError and its Display text
ToolError(variant, detail) == [variant |-> variant, detail |-> detail]
ErrorPrefix(variant) ==
    CASE variant = "IoError" -> "IO error: "
      [] variant = "PathNotFound" -> "Path not found: "
      [] variant = "PermissionDenied" -> "Permission denied: "
      [] variant = "InvalidArgument" -> "Invalid argument: "
      [] variant = "ToolNotFound" -> "Tool not found: "
      [] variant = "PatternError" -> "Pattern error: "
ErrorToString(e) == ErrorPrefix(e.variant) \o e.detail

\* ToolResult<T>
ToolOk(value) == [res |-> "Ok", value |-> value, error |-> ToolError("", "")]
ToolErr(e) == [res |-> "Err", value |-> JsonNull, error |-> e]

\* file_ops::read_file
read_file(f, path) ==
    IF ~Exists(f, path) THEN ToolErr(ToolError("PathNotFound", path))
    ELSE IF ~IsFile(f, path)
      THEN ToolErr(ToolError("InvalidArgument", "Path is not a file: " \o path))
    ELSE ToolOk(JsonString(f[path].content))

\* fs::create_dir_all(parent) of write_file: a missing parent becomes a
\* directory; the empty parent is the working directory.
CreateParent(f, path) ==
    IF Parent(path) # "" /\ ~Exists(f, Parent(path))
      THEN [f EXCEPT ![Parent(path)] = DirNode]
    ELSE f

\* A variant that appends to the content a file already has.
WriteFileAppend(f, path, content) ==
    LET made == CreateParent(f, path)
    IN  IF IsDir(made, path)
          THEN [result |-> ToolErr(ToolError("IoError", "Is a directory")), fs |-> made]
        ELSE IF Parent(path) # "" /\ ~IsDir(made, Parent(path))
          THEN [result |-> ToolErr(ToolError("IoError", "Not a directory")), fs |-> made]
        ELSE [result |-> ToolOk(JsonNull),
              fs |-> [made EXCEPT ![path] = FileNode(made[path].content \o content)]]

\* file_ops::write_file: the result and the file system it leaves.
write_file(f, path, content) ==
    LET made == CreateParent(f, path)
    IN  IF IsDir(made, path)
          THEN [result |-> ToolErr(ToolError("IoError", "Is a directory")), fs |-> made]
        ELSE IF Parent(path) # "" /\ ~IsDir(made, Parent(path))
          THEN [result |-> ToolErr(ToolError("IoError", "Not a directory")), fs |-> made]
        ELSE [result |-> ToolOk(JsonNull),
              fs |-> [made EXCEPT ![path] = FileNode(content)]]

\* The entries a listing or a search reports, one object per path.
PathObjects(paths) == [k \in DOMAIN paths |-> JsonObject([path |-> JsonString(paths[k])])]

\* file_ops::list_directory
list_directory(f, path) ==
    IF ~Exists(f, path) THEN ToolErr(ToolError("PathNotFound", path))
    ELSE IF ~IsDir(f, path)
      THEN ToolErr(ToolError("InvalidArgument", "Path is not a directory: " \o path))
    ELSE ToolOk(JsonArray(PathObjects(Children(f, path))))

\* glob::glob and RegexMatcher::new accept the pattern.
ValidGlob(pattern) == pattern # "["
ValidRegex(query) == query # "("

\* search::search_files
search_files(f, pattern, base_path) ==
    IF ~Exists(f, base_path) THEN ToolErr(ToolError("PathNotFound", base_path))
    ELSE IF ~IsDir(f, base_path)
      THEN ToolErr(ToolError("InvalidArgument",
                             "Base path is not a directory: " \o base_path))
    ELSE IF ~ValidGlob(pattern) THEN ToolErr(ToolError("PatternError", "invalid pattern"))
    ELSE ToolOk(JsonArray(PathObjects(Children(f, base_path))))

\* search::is_likely_text_file: by extension or well-known file name.
is_likely_text_file(path) == path = "d/a.txt"

\* search::collect_files_recursive: the files under the path that are likely
\* text.
collect_files_recursive(f, path) ==
    SelectSeq(IF IsFile(f, path) THEN <<path>> ELSE Children(f, path),
              is_likely_text_file)

\* search::grep_files
grep_files(f, query, path, file_pattern) ==
    IF ~Exists(f, path) THEN ToolErr(ToolError("PathNotFound", path))
    ELSE IF ~ValidRegex(query)
      THEN ToolErr(ToolError("PatternError", "Invalid regex: " \o query))
    ELSE IF IsSome(file_pattern) /\ search_files(f, Unwrap(file_pattern), path).res = "Err"
      THEN search_files(f, Unwrap(file_pattern), path)
    ELSE ToolOk(JsonArray(PathObjects(
             SelectSeq(IF IsSome(file_pattern) THEN Children(f, path)
                       ELSE collect_files_recursive(f, path),
                       LAMBDA p : f[p].content = query))))

\* args.get(key).and_then(|v| v.as_str())
GetStr(args, key) ==
    IF args.t = "object" /\ key \in DOMAIN args.map /\ args.map[key].t = "string"
      THEN Some(args.map[key].s)
    ELSE None

Missing(key) == ToolErr(ToolError("InvalidArgument", "Missing '" \o key \o "' argument"))
Success(key, value) == JsonObject([success |-> JsonBool(TRUE)] @@ (key :> value))
Outcome(res, f) == [result |-> res, fs |-> f]

execute_read_file(args, f) ==
    IF ~IsSome(GetStr(args, "path")) THEN Outcome(Missing("path"), f)
    ELSE LET read == read_file(f, Unwrap(GetStr(args, "path")))
         IN  IF read.res = "Err" THEN Outcome(read, f)
             ELSE Outcome(ToolOk(Success("content", read.value)), f)

execute_write_file(args, f) ==
    IF ~IsSome(GetStr(args, "path")) THEN Outcome(Missing("path"), f)
    ELSE IF ~IsSome(GetStr(args, "content")) THEN Outcome(Missing("content"), f)
    ELSE LET written == write_file(f, Unwrap(GetStr(args, "path")),
                                   Unwrap(GetStr(args, "content")))
         IN  IF written.result.res = "Err" THEN written
             ELSE Outcome(ToolOk(Success("message",
                              JsonString("File written successfully: "
                                         \o Unwrap(GetStr(args, "path"))))),
                          written.fs)

execute_list_directory(args, f) ==
    IF ~IsSome(GetStr(args, "path")) THEN Outcome(Missing("path"), f)
    ELSE LET listed == list_directory(f, Unwrap(GetStr(args, "path")))
         IN  IF listed.res = "Err" THEN Outcome(listed, f)
             ELSE Outcome(ToolOk(Success("entries", listed.value)), f)

execute_search_files(args, f) ==
    IF ~IsSome(GetStr(args, "pattern")) THEN Outcome(Missing("pattern"), f)
    ELSE IF ~IsSome(GetStr(args, "path")) THEN Outcome(Missing("path"), f)
    ELSE LET found == search_files(f, Unwrap(GetStr(args, "pattern")),
                                   Unwrap(GetStr(args, "path")))
         IN  IF found.res = "Err" THEN Outcome(found, f)
             ELSE Outcome(ToolOk(Success("matches", found.value)), f)

execute_grep_files(args, f) ==
    IF ~IsSome(GetStr(args, "query")) THEN Outcome(Missing("query"), f)
    ELSE IF ~IsSome(GetStr(args, "path")) THEN Outcome(Missing("path"), f)
    ELSE LET found == grep_files(f, Unwrap(GetStr(args, "query")),
                                 Unwrap(GetStr(args, "path")),
                                 GetStr(args, "file_pattern"))
         IN  IF found.res = "Err" THEN Outcome(found, f)
             ELSE Outcome(ToolOk(JsonObject(
                              [success |-> JsonBool(TRUE), results |-> found.value,
                               count |-> JsonNumber(Len(found.value.items))])), f)

\* A variant that also routes the upper-case spelling of write_file.
ExecuteToolAnyCase(tool_call, f) ==
    CASE tool_call.name = "read_file" -> execute_read_file(tool_call.arguments, f)
      [] tool_call.name \in {"write_file", "WRITE_FILE"} ->
            execute_write_file(tool_call.arguments, f)
      [] tool_call.name = "list_directory" -> execute_list_directory(tool_call.arguments, f)
      [] tool_call.name = "search_files" -> execute_search_files(tool_call.arguments, f)
      [] tool_call.name = "grep_files" -> execute_grep_files(tool_call.arguments, f)
      [] OTHER -> Outcome(ToolErr(ToolError("ToolNotFound", tool_call.name)), f)

\* executor::execute_tool: the result and the file system it leaves.
execute_tool(tool_call, f) ==
    CASE tool_call.name = "read_file" -> execute_read_file(tool_call.arguments, f)
      [] tool_call.name = "write_file" -> execute_write_file(tool_call.arguments, f)
      [] tool_call.name = "list_directory" -> execute_list_directory(tool_call.arguments, f)
      [] tool_call.name = "search_files" -> execute_search_files(tool_call.arguments, f)
      [] tool_call.name = "grep_files" -> execute_grep_files(tool_call.arguments, f)
      [] OTHER -> Outcome(ToolErr(ToolError("ToolNotFound", tool_call.name)), f)

\* A variant whose error text carries no success field.
ExecuteToolAsStringBareError(tool_call, f) ==
    LET done == execute_tool(tool_call, f)
    IN  [text |-> IF done.result.res = "Ok" THEN JsonToString(done.result.value)
                  ELSE JsonToString(JsonObject(
                           [error |-> JsonString(ErrorToString(done.result.error))])),
         fs |-> done.fs]

\* executor::execute_tool_as_string: the text and the file system it leaves.
execute_tool_as_string(tool_call, f) ==
    LET done == execute_tool(tool_call, f)
    IN  [text |-> IF done.result.res = "Ok" THEN JsonToString(done.result.value)
                  ELSE JsonToString(JsonObject(
                           [success |-> JsonBool(FALSE),
                            error |-> JsonString(ErrorToString(done.result.error))])),
         fs |-> done.fs]

\* executor::tool_result_is_error
tool_result_is_error(res) ==
    LET value == JsonFromStr(res)
    IN  IF /\ IsSome(value)
           /\ Unwrap(value).t = "object"
           /\ "success" \in DOMAIN Unwrap(value).map
           /\ Unwrap(value).map["success"].t = "bool"
          THEN ~Unwrap(value).map["success"].b
        ELSE FALSE

\* ToolResultOutput
ToolResultOutput(tool_use_id, content, is_error) ==
    [tool_use_id |-> tool_use_id, content |-> content, is_error |-> is_error]

\* A variant that stops at the first call that fails.
RECURSIVE ExecuteToolCallsStopAtError(_, _, _)
ExecuteToolCallsStopAtError(tool_calls, results, f) ==
    IF tool_calls = <<>> THEN [results |-> results, fs |-> f]
    ELSE LET tc == Head(tool_calls)
             done == execute_tool_as_string(tc, f)
             failed == tool_result_is_error(done.text)
         IN  ExecuteToolCallsStopAtError(
                 IF failed THEN <<>> ELSE Tail(tool_calls),
                 Append(results, ToolResultOutput(tc.id, done.text, failed)),
                 done.fs)

\* The execute_tool_calls command: the results and the file system it leaves.
RECURSIVE execute_tool_calls(_, _, _)
execute_tool_calls(tool_calls, results, f) ==
    IF tool_calls = <<>> THEN [results |-> results, fs |-> f]
    ELSE LET tc == Head(tool_calls)
             done == execute_tool_as_string(tc, f)
         IN  execute_tool_calls(
                 Tail(tool_calls),
                 Append(results, ToolResultOutput(tc.id, done.text,
                                                  tool_result_is_error(done.text))),
                 done.fs)

\* The tool calls of the model.
Args(map) == JsonObject(map)
ToolCalls ==
    {ToolCall("c01", "unknown_tool", Args(EmptyMap)),
     ToolCall("c02", "WRITE_FILE", Args([path |-> JsonString("b"), content |-> JsonString("x")])),
     ToolCall("c03", "read_file", Args([path |-> JsonString("b")])),
     ToolCall("c04", "read_file", Args([path |-> JsonString("d")])),
     ToolCall("c05", "read_file", Args([path |-> JsonNumber(1)])),
     ToolCall("c06", "write_file", Args([path |-> JsonString("b"), content |-> JsonString("x")])),
     ToolCall("c07", "write_file", Args([path |-> JsonString("b"), content |-> JsonString("")])),
     ToolCall("c08", "write_file", Args([path |-> JsonString("d/a.txt"), content |-> JsonString("x")])),
     ToolCall("c09", "write_file", Args([path |-> JsonString("d"), content |-> JsonString("y")])),
     ToolCall("c10", "write_file", Args([path |-> JsonString("b")])),
     ToolCall("c11", "list_directory", Args([path |-> JsonString("d")])),
     ToolCall("c12", "search_files", Args([path |-> JsonString("d"), pattern |-> JsonString("[")])),
     ToolCall("c13", "grep_files", Args([path |-> JsonString("d"), query |-> JsonString("x")])),
     ToolCall("c14", "grep_files", JsonNull)}

\* The file systems a behaviour starts from.
EmptyFs == [p \in Paths |-> Absent]
FileSystems ==
    {EmptyFs,
     [EmptyFs EXCEPT !["b"] = FileNode("y"), !["d"] = DirNode, !["d/a.txt"] = FileNode("x")]}

\* Calls executed so far.
RECURSIVE Executed(_)
Executed(entries) ==
    IF entries = <<>> THEN 0 ELSE Len(Head(entries).input) + Executed(Tail(entries))

LogEntry(command, input, out, before, after) ==
    [command |-> command, input |-> input, output |-> out,
     before |-> before, after |-> after]

ToolInit ==
    /\ CallIdle
    /\ vendor = "anthropic"
    /\ response = None
    /\ provider = NewProvider(vendor)
    /\ ConfigIdle
    /\ EncodeIdle
    /\ output = None
    /\ RegistryIdle
    /\ fs \in FileSystems
    /\ log = <<>>
    /\ LockIdle
    /\ TerminalIdle

ExecuteTool ==
    /\ Len(log) < MaxCalls
    /\ Executed(log) < MaxCalls
    /\ \E tc \in ToolCalls :
        LET done == execute_tool(tc, fs)
        IN  /\ fs' = done.fs
            /\ log' = Append(log, LogEntry("execute_tool", <<tc>>, <<done.result>>,
                                           fs, done.fs))
    /\ UNCHANGED <<callVars, configVars, encodeVars, output, registryVars, lockVars,
                   terminalVars>>

ExecuteToolAsString ==
    /\ Len(log) < MaxCalls
    /\ Executed(log) < MaxCalls
    /\ \E tc \in ToolCalls :
        LET done == execute_tool_as_string(tc, fs)
        IN  /\ fs' = done.fs
            /\ log' = Append(log, LogEntry("execute_tool_as_string", <<tc>>, <<done.text>>,
                                           fs, done.fs))
    /\ UNCHANGED <<callVars, configVars, encodeVars, output, registryVars, lockVars,
                   terminalVars>>

ExecuteToolCalls ==
    /\ Len(log) < MaxCalls
    /\ \E tcs \in SeqsUpTo(ToolCalls, MaxCalls - Executed(log)) :
        LET done == execute_tool_calls(tcs, <<>>, fs)
        IN  /\ fs' = done.fs
            /\ log' = Append(log, LogEntry("execute_tool_calls", tcs, done.results,
                                           fs, done.fs))
    /\ UNCHANGED <<callVars, configVars, encodeVars, output, registryVars, lockVars,
                   terminalVars>>

ToolNext ==
    \/ ExecuteTool
    \/ ExecuteToolAsString
    \/ ExecuteToolCalls

ToolSpec == ToolInit /\ [][ToolNext]_vars

(***************************************************************************)
(* AppState under concurrent calls: the two tokio RwLocks, the provider    *)
(* initialisation spawned at setup and the commands that run beside it.    *)
(***************************************************************************)
LockNames == {"providers", "active_provider"}
Tasks == {"setup", "command1", "command2"}

\* tokio::sync::RwLock: the tasks holding it and the tasks queued for it, in
\* order of arrival.
FreeLock == [readers |-> {}, writer |-> None, queue |-> <<>>]
Waiter(t, mode) == [task |-> t, mode |-> mode]

\* RwLock::read / RwLock::write up to the await: the task joins the queue.
Enqueue(locks, l, t, mode) ==
    [locks EXCEPT ![l].queue = Append(@, Waiter(t, mode))]

\* The waiter at the head of the queue can take the lock: a reader when no
\* writer holds it, a writer when nobody holds it.
CanGrant(lock) ==
    /\ lock.queue # <<>>
    /\ lock.writer = None
    /\ Head(lock.queue).mode = "write" => lock.readers = {}

Granted(lock) ==
    IF Head(lock.queue).mode = "write"
      THEN [lock EXCEPT !.writer = Some(Head(lock.queue).task), !.queue = Tail(@)]
    ELSE [lock EXCEPT !.readers = @ \cup {Head(lock.queue).task}, !.queue = Tail(@)]

HoldsRead(l, t) == t \in rwlocks[l].readers
HoldsWrite(l, t) == rwlocks[l].writer = Some(t)

\* Dropping a guard.
Release(locks, l, t) ==
    [locks EXCEPT ![l].readers = @ \ {t},
                  ![l].writer = IF @ = Some(t) THEN None ELSE @]

\* std::env::var of an API key: unset, set to the empty string, or set.
EnvValues == {None, Some(""), Some("sk")}
KeySet(e, name) == IsSome(e[name]) /\ Unwrap(e[name]) # ""

\* providers.insert(name, provider)
Insert(ps, name) == (name :> NewProvider(name)) @@ ps

\* `if active.is_none() { *active = Some(name) }`
DefaultActiveOverwrite(active, name) == Some(name)
DefaultActive(active, name) == IF active = None THEN Some(name) ELSE active

\* providers.contains_key(name)
ContainsKeyAlways(ps, name) == TRUE
ContainsKey(ps, name) == name \in DOMAIN ps

\* A task: the call it runs, its position in it, its argument, and what it
\* returned.
IdleTask == [op |-> "", pc |-> "idle", name |-> "", ret |-> ""]
Running(operation, position, name) ==
    [op |-> operation, pc |-> position, name |-> name, ret |-> ""]
Returned(task, ret) == [task EXCEPT !.pc = "done", !.ret = ret]

\* AppState::new() and the environment the process was started in.
LockInit ==
    /\ CallIdle
    /\ vendor = "anthropic"
    /\ response = None
    /\ provider = NewProvider(vendor)
    /\ ConfigIdle
    /\ EncodeIdle
    /\ output = None
    /\ providers = <<>>
    /\ active_provider = None
    /\ outcome = None
    /\ ToolIdle
    /\ rwlocks = [l \in LockNames |-> FreeLock]
    /\ tasks = [t \in Tasks |-> IdleTask]
    /\ env \in [Vendors -> EnvValues]
    /\ TerminalIdle

lockFrame == <<callVars, configVars, encodeVars, output, outcome, toolVars, terminalVars, env>>

\* The lock goes to the head of its queue.
GrantLock ==
    \E l \in LockNames :
        /\ CanGrant(rwlocks[l])
        /\ rwlocks' = [rwlocks EXCEPT ![l] = Granted(@)]
        /\ UNCHANGED <<providers, active_provider, tasks, lockFrame>>

\* lib.rs setup: init_providers is spawned once; it asks for providers.write().
InitStart ==
    /\ tasks["setup"].pc = "idle"
    /\ tasks' = [tasks EXCEPT !["setup"] = Running("init_providers", "anthropic", "")]
    /\ rwlocks' = Enqueue(rwlocks, "providers", "setup", "write")
    /\ UNCHANGED <<providers, active_provider, lockFrame>>

\* The Anthropic block up to active_provider.write().
InitAnthropic ==
    /\ tasks["setup"].pc = "anthropic"
    /\ HoldsWrite("providers", "setup")
    /\ IF KeySet(env, "anthropic")
         THEN /\ providers' = Insert(providers, "anthropic")
              /\ rwlocks' = Enqueue(rwlocks, "active_provider", "setup", "write")
              /\ tasks' = [tasks EXCEPT !["setup"].pc = "anthropic_active"]
       ELSE /\ tasks' = [tasks EXCEPT !["setup"].pc = "openai"]
            /\ UNCHANGED <<providers, rwlocks>>
    /\ UNCHANGED <<active_provider, lockFrame>>

\* The rest of the Anthropic block; the guard on active_provider is dropped
\* at its end.
InitAnthropicActive ==
    /\ tasks["setup"].pc = "anthropic_active"
    /\ HoldsWrite("active_provider", "setup")
    /\ active_provider' = DefaultActive(active_provider, "anthropic")
    /\ rwlocks' = Release(rwlocks, "active_provider", "setup")
    /\ tasks' = [tasks EXCEPT !["setup"].pc = "openai"]
    /\ UNCHANGED <<providers, lockFrame>>

\* The OpenAI block up to active_provider.write().
InitOpenAI ==
    /\ tasks["setup"].pc = "openai"
    /\ HoldsWrite("providers", "setup")
    /\ IF KeySet(env, "openai")
         THEN /\ providers' = Insert(providers, "openai")
              /\ rwlocks' = Enqueue(rwlocks, "active_provider", "setup", "write")
              /\ tasks' = [tasks EXCEPT !["setup"].pc = "openai_active"]
       ELSE /\ tasks' = [tasks EXCEPT !["setup"].pc = "return"]
            /\ UNCHANGED <<providers, rwlocks>>
    /\ UNCHANGED <<active_provider, lockFrame>>

InitOpenAIActive ==
    /\ tasks["setup"].pc = "openai_active"
    /\ HoldsWrite("active_provider", "setup")
    /\ active_provider' = DefaultActive(active_provider, "openai")
    /\ rwlocks' = Release(rwlocks, "active_provider", "setup")
    /\ tasks' = [tasks EXCEPT !["setup"].pc = "return"]
    /\ UNCHANGED <<providers, lockFrame>>

\* init_providers returns and drops the guard on providers.
InitReturn ==
    /\ tasks["setup"].pc = "return"
    /\ rwlocks' = Release(rwlocks, "providers", "setup")
    /\ tasks' = [tasks EXCEPT !["setup"] = Returned(@, "()")]
    /\ UNCHANGED <<providers, active_provider, lockFrame>>

CommandTasks == Tasks \ {"setup"}
Free(t) == tasks[t].pc \in {"idle", "done"}

\* AppState::get_active_provider: active_provider.read()
GetActiveStart ==
    \E t \in CommandTasks :
        /\ Free(t)
        /\ tasks' = [tasks EXCEPT ![t] = Running("get_active_provider", "active_read", "")]
        /\ rwlocks' = Enqueue(rwlocks, "active_provider", t, "read")
        /\ UNCHANGED <<providers, active_provider, lockFrame>>

\* With the guard on active_provider held: None, or get_provider(name) up to
\* providers.read().
GetActiveRead ==
    \E t \in CommandTasks :
        /\ tasks[t].pc = "active_read"
        /\ HoldsRead("active_provider", t)
        /\ IF active_provider = None
             THEN /\ rwlocks' = Release(rwlocks, "active_provider", t)
                  /\ tasks' = [tasks EXCEPT ![t] = Returned(@, "None")]
           ELSE /\ rwlocks' = Enqueue(rwlocks, "providers", t, "read")
                /\ tasks' = [tasks EXCEPT ![t].pc = "providers_read",
                                          ![t].name = Unwrap(active_provider)]
        /\ UNCHANGED <<providers, active_provider, lockFrame>>

\* get_provider returns and both guards are dropped.
GetActiveProvider ==
    \E t \in CommandTasks :
        /\ tasks[t].pc = "providers_read"
        /\ HoldsRead("providers", t)
        /\ rwlocks' = Release(Release(rwlocks, "providers", t), "active_provider", t)
        /\ tasks' = [tasks EXCEPT ![t] =
                        Returned(@, IF IsSome(get_provider(providers, tasks[t].name))
                                      THEN "Some" ELSE "None")]
        /\ UNCHANGED <<providers, active_provider, lockFrame>>

\* AppState::set_active_provider: providers.read()
SetActiveStart ==
    \E t \in CommandTasks : \E name \in ProviderNames :
        /\ Free(t)
        /\ tasks' = [tasks EXCEPT ![t] = Running("set_active_provider", "contains_key", name)]
        /\ rwlocks' = Enqueue(rwlocks, "providers", t, "read")
        /\ UNCHANGED <<providers, active_provider, lockFrame>>

\* With the guard on providers held: Err, or on to active_provider.write().
SetActiveContains ==
    \E t \in CommandTasks :
        /\ tasks[t].pc = "contains_key"
        /\ HoldsRead("providers", t)
        /\ IF ContainsKey(providers, tasks[t].name)
             THEN /\ rwlocks' = Enqueue(rwlocks, "active_provider", t, "write")
                  /\ tasks' = [tasks EXCEPT ![t].pc = "active_write"]
           ELSE /\ rwlocks' = Release(rwlocks, "providers", t)
                /\ tasks' = [tasks EXCEPT ![t] = Returned(@, "Err")]
        /\ UNCHANGED <<providers, active_provider, lockFrame>>

SetActiveWrite ==
    \E t \in CommandTasks :
        /\ tasks[t].pc = "active_write"
        /\ HoldsWrite("active_provider", t)
        /\ active_provider' = Some(tasks[t].name)
        /\ rwlocks' = Release(Release(rwlocks, "active_provider", t), "providers", t)
        /\ tasks' = [tasks EXCEPT ![t] = Returned(@, "Ok")]
        /\ UNCHANGED <<providers, lockFrame>>

\* The get_providers command: providers.read()
GetProvidersStart ==
    \E t \in CommandTasks :
        /\ Free(t)
        /\ tasks' = [tasks EXCEPT ![t] = Running("get_providers", "list_providers", "")]
        /\ rwlocks' = Enqueue(rwlocks, "providers", t, "read")
        /\ UNCHANGED <<providers, active_provider, lockFrame>>

\* With the guard on providers held: active_provider.read()
GetProvidersLocked ==
    \E t \in CommandTasks :
        /\ tasks[t].pc = "list_providers"
        /\ HoldsRead("providers", t)
        /\ rwlocks' = Enqueue(rwlocks, "active_provider", t, "read")
        /\ tasks' = [tasks EXCEPT ![t].pc = "list_active"]
        /\ UNCHANGED <<providers, active_provider, lockFrame>>

GetProvidersList ==
    \E t \in CommandTasks :
        /\ tasks[t].pc = "list_active"
        /\ HoldsRead("active_provider", t)
        /\ rwlocks' = Release(Release(rwlocks, "active_provider", t), "providers", t)
        /\ tasks' = [tasks EXCEPT ![t] = Returned(@, "Ok")]
        /\ UNCHANGED <<providers, active_provider, lockFrame>>

LockNext ==
    \/ GrantLock
    \/ InitStart
    \/ InitAnthropic
    \/ InitAnthropicActive
    \/ InitOpenAI
    \/ InitOpenAIActive
    \/ InitReturn
    \/ GetActiveStart
    \/ GetActiveRead
    \/ GetActiveProvider
    \/ SetActiveStart
    \/ SetActiveContains
    \/ SetActiveWrite
    \/ GetProvidersStart
    \/ GetProvidersLocked
    \/ GetProvidersList

LockSpec == LockInit /\ [][LockNext]_vars

(***************************************************************************)
(* Terminal sessions: TerminalState and the terminal commands.             *)
(***************************************************************************)
\* Number of terminal commands invoked in one behaviour.
MaxCommands == 4

\* The ids of the model; uuid::Uuid::new_v4 hands them out in this order.
TerminalIds == <<"t1", "t2">>

TerminalInfo(id, cols, rows) == [id |-> id, cols |-> cols, rows |-> rows]
\* PtySession: its info and the bytes written to the PTY.
PtySession(info) == [info |-> info, input |-> <<>>]

TerminalNotFound(id) == "Terminal " \o id \o " not found"

\* TerminalState::add_session, get_session, remove_session, list_sessions
add_session(ss, id, session) == (id :> session) @@ ss
get_session(ss, id) == IF id \in DOMAIN ss THEN Some(ss[id]) ELSE None
RemoveSessionKeeps(ss, id) == [sessions |-> ss, removed |-> get_session(ss, id)]
remove_session(ss, id) ==
    [sessions |-> IF id \in DOMAIN ss THEN [k \in DOMAIN ss \ {id} |-> ss[k]] ELSE ss,
     removed |-> get_session(ss, id)]
list_sessions(ss) == {ss[k].info : k \in DOMAIN ss}

\* A command: its argument, its position, what it returned, the ids whose
\* close_terminal had returned when it was invoked, and what it saw.
Command(command, id, position, ret, before, after, listed) ==
    [command |-> command, id |-> id, pc |-> position, ret |-> ret,
     closed |-> {calls[k].id : k \in {j \in DOMAIN calls :
                     calls[j].command = "close_terminal" /\ calls[j].pc = "done"}},
     before |-> before, after |-> after, listed |-> listed]

\* A new v4 uuid is an id that no session had and no command named before.
Named == {calls[k].id : k \in DOMAIN calls}
Fresh == {k \in DOMAIN TerminalIds : TerminalIds[k] \notin Named}

\* TerminalState::new()
TerminalInit ==
    /\ CallIdle
    /\ vendor = "anthropic"
    /\ response = None
    /\ provider = NewProvider(vendor)
    /\ ConfigIdle
    /\ EncodeIdle
    /\ output = None
    /\ RegistryIdle
    /\ ToolIdle
    /\ LockIdle
    /\ sessions = <<>>
    /\ calls = <<>>

terminalFrame == <<callVars, configVars, encodeVars, output, registryVars, toolVars, lockVars>>

\* spawn_terminal: the PTY or the shell fails to open, or the session is
\* added under a new id with the default size.
SpawnTerminal ==
    /\ Len(calls) < MaxCommands
    /\ Fresh # {}
    /\ LET id == TerminalIds[CHOOSE k \in Fresh : \A j \in Fresh : k <= j]
       IN  \E opened \in BOOLEAN :
             IF opened
               THEN /\ sessions' = add_session(sessions, id,
                                               PtySession(TerminalInfo(id, 80, 24)))
                    /\ calls' = Append(calls, Command("spawn_terminal", id, "done", "Ok",
                                                      sessions, sessions', {}))
             ELSE /\ calls' = Append(calls, Command("spawn_terminal", "", "done",
                                                    "Failed to open PTY", sessions, sessions, {}))
                  /\ UNCHANGED sessions
    /\ UNCHANGED terminalFrame

\* write_terminal up to session.lock()
WriteTerminal ==
    /\ Len(calls) < MaxCommands
    /\ \E k \in DOMAIN TerminalIds :
        LET id == TerminalIds[k]
        IN  calls' = Append(calls,
                IF IsSome(get_session(sessions, id))
                  THEN Command("write_terminal", id, "session", "", sessions, sessions, {})
                ELSE Command("write_terminal", id, "done", TerminalNotFound(id),
                             sessions, sessions, {}))
    /\ UNCHANGED <<sessions, terminalFrame>>

\* write_terminal with the session locked: write_all and flush, which may fail.
WriteSession ==
    \E i \in DOMAIN calls : \E written \in BOOLEAN :
        /\ calls[i].command = "write_terminal"
        /\ calls[i].pc = "session"
        /\ calls' = [calls EXCEPT ![i].pc = "done",
                                  ![i].ret = IF written THEN "Ok"
                                             ELSE "Failed to write to PTY"]
        /\ sessions' = IF written /\ calls[i].id \in DOMAIN sessions
                         THEN [sessions EXCEPT ![calls[i].id].input = Append(@, "x")]
                       ELSE sessions
        /\ UNCHANGED terminalFrame

\* resize_terminal up to session.lock()
ResizeTerminal ==
    /\ Len(calls) < MaxCommands
    /\ \E k \in DOMAIN TerminalIds :
        LET id == TerminalIds[k]
        IN  calls' = Append(calls,
                IF IsSome(get_session(sessions, id))
                  THEN Command("resize_terminal", id, "session", "", sessions, sessions, {})
                ELSE Command("resize_terminal", id, "done", TerminalNotFound(id),
                             sessions, sessions, {}))
    /\ UNCHANGED <<sessions, terminalFrame>>

\* resize_terminal with the session locked: the PTY is resized, which may
\* fail, and the info updated.
ResizeSession ==
    \E i \in DOMAIN calls : \E resized \in BOOLEAN :
        /\ calls[i].command = "resize_terminal"
        /\ calls[i].pc = "session"
        /\ calls' = [calls EXCEPT ![i].pc = "done",
                                  ![i].ret = IF resized THEN "Ok"
                                             ELSE "Failed to resize PTY"]
        /\ sessions' = IF resized /\ calls[i].id \in DOMAIN sessions
                         THEN [sessions EXCEPT ![calls[i].id].info =
                                   TerminalInfo(calls[i].id, 100, 40)]
                       ELSE sessions
        /\ UNCHANGED terminalFrame

\* close_terminal: remove_session, and Ok at once when there was none.
CloseTerminal ==
    /\ Len(calls) < MaxCommands
    /\ \E k \in DOMAIN TerminalIds :
        LET id == TerminalIds[k]
            after == remove_session(sessions, id)
        IN  /\ sessions' = after.sessions
            /\ calls' = Append(calls,
                   IF IsSome(after.removed)
                     THEN Command("close_terminal", id, "session", "", sessions,
                                  after.sessions, {})
                   ELSE Command("close_terminal", id, "done", "Ok", sessions,
                                after.sessions, {}))
    /\ UNCHANGED terminalFrame

\* close_terminal with the removed session locked: the shutdown signal is
\* sent, its result ignored.
CloseShutdown ==
    \E i \in DOMAIN calls :
        /\ calls[i].command = "close_terminal"
        /\ calls[i].pc = "session"
        /\ calls' = [calls EXCEPT ![i].pc = "done", ![i].ret = "Ok"]
        /\ UNCHANGED <<sessions, terminalFrame>>

\* list_terminals
ListTerminals ==
    /\ Len(calls) < MaxCommands
    /\ calls' = Append(calls, Command("list_terminals", "", "done", "Ok", sessions, sessions,
                                      list_sessions(sessions)))
    /\ UNCHANGED <<sessions, terminalFrame>>

TerminalNext ==
    \/ SpawnTerminal
    \/ WriteTerminal
    \/ WriteSession
    \/ ResizeTerminal
    \/ ResizeSession
    \/ CloseTerminal
    \/ CloseShutdown
    \/ ListTerminals

TerminalSpec == TerminalInit /\ [][TerminalNext]_vars

(***************************************************************************)
(* Properties                                                              *)
(***************************************************************************)
RECURSIVE OkItems(_)
OkItems(chunks) ==
    IF chunks = <<>> THEN <<>> ELSE <<Ok(Head(chunks))>> \o OkItems(Tail(chunks))

RECURSIVE FromChunks(_)
FromChunks(chunks) ==
    IF chunks = <<>> THEN <<>>
    ELSE <<from_chunk(Head(chunks))>> \o FromChunks(Tail(chunks))

Last(seq) == seq[Len(seq)]

\* The ChatChunks among the items the stream has yielded.
RECURSIVE ChunksOf(_)
ChunksOf(items) ==
    IF items = <<>> THEN <<>>
    ELSE (IF Head(items).res = "Ok" THEN <<Head(items).chunk>> ELSE <<>>)
         \o ChunksOf(Tail(items))

YieldedChunks == ChunksOf(yielded)

\* C1: whenever the HTTP status is 429 the call returns RateLimited, whatever
\* the body is; it never returns ApiError for status 429.
C1_RateLimitedOn429 ==
    (pc = "done" /\ status = 429) => result = RateLimited

\* C2: the ChatChunks decoded from a body do not depend on how the transport
\* cuts its bytes into chunks: once every line begun has arrived completely,
\* they are the ChatChunks of the same lines arriving in one chunk.
C2_ChunkingIndependent ==
    ~IsSome(partial) => decoded = DecodeChunk(vendor, sent)

\* C3: once a vendor error frame has been translated to ChatChunk::Error the
\* decoder stops: no frame produces a ChatChunk after it, and the stream
\* yields no ChatChunk after it.
C3_StopsAfterErrorFrame ==
    /\ \A i \in DOMAIN decoded : decoded[i].type = "Error" => i = Len(decoded)
    /\ \A i \in DOMAIN YieldedChunks :
          YieldedChunks[i].type = "Error" => i = Len(YieldedChunks)

\* C4: a non-2xx status fails chat_stream with one error and no event; a
\* transport failure mid-stream is yielded as one Err item after every
\* ChatChunk decoded before it and is the stream's last item; on the channel
\* it is one Error event after the events of those ChatChunks, followed only
\* by the closing Done.
C4_SingleErrorThenEnd ==
    /\ (op = "chat_stream" /\ pc = "done" /\ status # 0 /\ ~IsSuccess(status)) =>
          /\ result.kind \in {"RateLimited", "ApiError"}
          /\ yielded = <<>>
          /\ emitted = <<>>
    /\ transport = "failed" =>
          /\ pc = "done"
          /\ yielded = OkItems(decoded) \o <<Err(StreamErrorText)>>
          /\ ~emitFailed =>
                emitted = FromChunks(decoded)
                          \o <<StreamEvent("Error", 0, <<StreamErrorText>>), Done>>

\* C4 witness: the transport failed after ChatChunks had been decoded, and
\* every emit succeeded.
C4_Witness ==
    /\ transport = "failed"
    /\ ~emitFailed
    /\ decoded # <<>>

\* A data line whose payload is not the vendor's stream JSON.
IsMalformedLine(l) == l.pre /\ l.payload.type \in {"malformed", "truncated"}

\* The lines of the transport chunk read in this step.
ChunkRead ==
    LET new == SubSeq(sent', Len(sent) + 1, Len(sent'))
    IN  ChunkText(partial, IF IsSome(partial) THEN Tail(new) ELSE new, partial')

\* C5: a data line that does not parse produces no ChatChunk and no error and
\* does not end the stream: whenever a transport chunk is read, the decoder
\* adds exactly the ChatChunks of the chunk's other lines, in order, and the
\* stream stays open.
C5_MalformedSkipped ==
    [][ (<<sent, partial>>' # <<sent, partial>>) =>
          /\ decoded' = decoded
                \o DecodeChunk(vendor, SelectSeq(ChunkRead, LAMBDA l : ~IsMalformedLine(l)))
          /\ buf' = DecodeChunk(vendor, SelectSeq(ChunkRead, LAMBDA l : ~IsMalformedLine(l)))
          /\ yielded' = yielded
          /\ pc' = "streaming"
          /\ transport' = "open" ]_vars

\* C5 witness: a malformed data line came first, a well-formed frame after
\* it, and the frame was translated.
C5_Witness ==
    /\ Len(sent) = 2
    /\ sent[1].pre /\ sent[1].payload.type = "malformed"
    /\ sent[2].pre /\ sent[2].payload.type \notin {"malformed", "[DONE]"}
    /\ ~IsSome(partial)
    /\ decoded # <<>>
    /\ yielded = OkItems(decoded)
    /\ pc = "streaming"

\* C6: when the body ends with the line `data: [DONE]` and the vendor sent no
\* message-stop event, the last ChatChunk of the stream is a MessageStop.
C6_DoneYieldsMessageStop ==
    (/\ pc = "done"
     /\ transport = "ended"
     /\ ~IsSome(partial)
     /\ sent # <<>>
     /\ Last(sent).pre /\ Last(sent).payload.type = "[DONE]"
     /\ \A i \in DOMAIN sent : sent[i].payload.type # "message_stop")
    => (YieldedChunks # <<>> /\ Last(YieldedChunks).type = "MessageStop")

\* C7: at most one MessageStop is yielded, and after a MessageStop no
\* MessageStart, ContentBlockStart/Delta/Stop, MessageDelta or MessageStop.
C7_AtMostOneMessageStop ==
    \A i, j \in DOMAIN YieldedChunks :
        (i < j /\ YieldedChunks[i].type = "MessageStop") =>
            YieldedChunks[j].type \notin
                {"MessageStart", "ContentBlockStart", "ContentBlockDelta",
                 "ContentBlockStop", "MessageDelta", "MessageStop"}

\* C8: an OpenAI stream yields MessageStart at most once, and before any
\* content event.
C8_MessageStartOnce ==
    vendor = "openai" =>
        /\ Cardinality({i \in DOMAIN YieldedChunks :
                            YieldedChunks[i].type = "MessageStart"}) <= 1
        /\ \A i \in DOMAIN YieldedChunks :
              YieldedChunks[i].type \in {"ContentBlockStart", "ContentBlockDelta"}
              => \E j \in 1..(i - 1) : YieldedChunks[j].type = "MessageStart"

IsToolStart(c, i) == c.type = "ContentBlockStart" /\ c.kind = "ToolUse" /\ c.index = i
IsBlockDelta(c, i) == c.type = "ContentBlockDelta" /\ c.index = i
IsBlockStop(c, i) == c.type = "ContentBlockStop" /\ c.index = i

\* The indices of the tool calls the stream has started.
ToolIndices ==
    {YieldedChunks[k].index :
        k \in {k \in DOMAIN YieldedChunks :
                  YieldedChunks[k].type = "ContentBlockStart"
                  /\ YieldedChunks[k].kind = "ToolUse"}}

\* Call i was started once, before all its fragments.
CallStarted(i) ==
    \E s \in DOMAIN YieldedChunks :
        /\ IsToolStart(YieldedChunks[s], i)
        /\ \A k \in DOMAIN YieldedChunks :
              /\ IsToolStart(YieldedChunks[k], i) => k = s
              /\ IsBlockDelta(YieldedChunks[k], i) => s < k

\* Fragments of the calls i and j interleave.
Interleaved(i, j) ==
    \E p, q, r \in DOMAIN YieldedChunks :
        /\ p < q /\ q < r
        /\ IsBlockDelta(YieldedChunks[p], i)
        /\ IsBlockDelta(YieldedChunks[q], j)
        /\ IsBlockDelta(YieldedChunks[r], i)

\* Call i was closed: a ContentBlockStop with its index follows its start
\* and all its fragments.
CallStopped(i) ==
    \E e \in DOMAIN YieldedChunks :
        /\ IsBlockStop(YieldedChunks[e], i)
        /\ \A k \in DOMAIN YieldedChunks :
              (IsToolStart(YieldedChunks[k], i) \/ IsBlockDelta(YieldedChunks[k], i))
              => k < e

\* C9: in a stream that ran to its end, two tool calls that were open at the
\* same time with interleaving fragments each yield a ContentBlockStart, then
\* their deltas, then a ContentBlockStop, all with the call's own index.
C9_InterleavedCallsComplete ==
    (pc = "done" /\ transport = "ended") =>
        \A i, j \in ToolIndices :
            (i # j /\ CallStarted(i) /\ CallStarted(j) /\ Interleaved(i, j))
            => (CallStopped(i) /\ CallStopped(j))

\* C10: no two ContentBlockStart events of one stream carry the same index.
C10_IndexNotReused ==
    \A i, j \in DOMAIN YieldedChunks :
        (/\ i < j
         /\ YieldedChunks[i].type = "ContentBlockStart"
         /\ YieldedChunks[j].type = "ContentBlockStart")
        => YieldedChunks[i].index # YieldedChunks[j].index

\* The <<kind, index>> pairs the mapping table of the unified stream gives
\* a vendor's tool-call entry with vendor index n: both events carry n + 1.
ExpectedToolCall(tc) ==
    (IF IsSome(tc.id) THEN <<<<"ContentBlockStart", tc.index + 1>>>> ELSE <<>>)
    \o (IF IsSome(tc.function) /\ IsSome(Unwrap(tc.function).arguments)
           /\ Unwrap(Unwrap(tc.function).arguments) # ""
          THEN <<<<"InputJsonDelta", tc.index + 1>>>> ELSE <<>>)

RECURSIVE ExpectedToolCalls(_)
ExpectedToolCalls(tcs) ==
    IF tcs = <<>> THEN <<>>
    ELSE ExpectedToolCall(Head(tcs)) \o ExpectedToolCalls(Tail(tcs))

RECURSIVE ExpectedChoices(_)
ExpectedChoices(choices) ==
    IF choices = <<>> THEN <<>>
    ELSE (IF IsSome(Head(choices).content) /\ Unwrap(Head(choices).content) # ""
             THEN <<<<"TextDelta", 0>>>> ELSE <<>>)
         \o (IF IsSome(Head(choices).tool_calls)
                THEN ExpectedToolCalls(Unwrap(Head(choices).tool_calls)) ELSE <<>>)
         \o ExpectedChoices(Tail(choices))

\* The content events expected of the lines of an OpenAI transport chunk.
RECURSIVE ExpectedContent(_)
ExpectedContent(lines) ==
    IF lines = <<>> THEN <<>>
    ELSE (IF Head(lines).pre /\ Head(lines).payload.type = "chunk"
             THEN ExpectedChoices(Head(lines).payload.choices) ELSE <<>>)
         \o ExpectedContent(Tail(lines))

\* The <<kind, index>> pairs of the content events among ChatChunks.
RECURSIVE ContentIndices(_)
ContentIndices(chunks) ==
    IF chunks = <<>> THEN <<>>
    ELSE (CASE Head(chunks).type = "ContentBlockStart" ->
                  <<<<"ContentBlockStart", Head(chunks).index>>>>
            [] Head(chunks).type = "ContentBlockDelta" ->
                  <<<<Head(chunks).kind, Head(chunks).index>>>>
            [] OTHER -> <<>>)
         \o ContentIndices(Tail(chunks))

\* C11: in an OpenAI stream every text delta carries index 0 and every event
\* of the vendor's tool call n (its ContentBlockStart and its InputJsonDelta
\* events) carries index n + 1: whenever a transport chunk is read, the
\* content events decoded from it carry exactly these indices, in order.
C11_ToolIndexOffset ==
    [][ (vendor = "openai" /\ <<sent, partial>>' # <<sent, partial>>) =>
          ContentIndices(buf') = ExpectedContent(ChunkRead) ]_vars

\* C11 witness: a text delta with index 0 and the start of the vendor's tool
\* call 1 with index 2 have been yielded.
C11_Witness ==
    /\ vendor = "openai"
    /\ \E i \in DOMAIN YieldedChunks :
          YieldedChunks[i].type = "ContentBlockDelta"
          /\ YieldedChunks[i].kind = "TextDelta" /\ YieldedChunks[i].index = 0
    /\ \E i \in DOMAIN YieldedChunks :
          IsToolStart(YieldedChunks[i], 2)

IsPrefix(a, b) == Len(a) <= Len(b) /\ SubSeq(b, 1, Len(a)) = a

\* C12: events reach the caller in the order of the frames that produced
\* them.  Within a transport chunk the events of the chunk's first k lines
\* come before the events of its later lines, for every k; the events of a
\* chunk come after the events of all earlier chunks; and the caller is
\* handed the events in the order they were decoded.
C12_FrameOrderPreserved ==
    [][ /\ YieldedChunks' \o buf' = decoded'
        /\ (<<sent, partial>>' # <<sent, partial>>) =>
              /\ decoded' = decoded \o buf'
              /\ \A k \in 0..Len(ChunkRead) :
                    IsPrefix(DecodeChunk(vendor, SubSeq(ChunkRead, 1, k)), buf') ]_vars

\* C12 witness: a message_start frame and a content_block_delta frame after
\* it have been translated, and their events yielded in that order.
C12_Witness ==
    /\ vendor = "anthropic"
    /\ Len(sent) = 2 /\ ~IsSome(partial)
    /\ sent[1].pre /\ sent[1].payload.type = "message_start"
    /\ sent[2].pre /\ sent[2].payload.type = "content_block_delta"
    /\ buf = <<>>
    /\ Len(YieldedChunks) = 2
    /\ YieldedChunks[1].type = "MessageStart"
    /\ YieldedChunks[2].type = "ContentBlockDelta"

\* The argument fragments a vendor line carries for the call that the unified
\* stream addresses with index i, in arrival order, concatenated.
RECURSIVE OpenAICallJson(_, _)
OpenAICallJson(tcs, i) ==
    IF tcs = <<>> THEN ""
    ELSE (IF Head(tcs).index + 1 = i /\ IsSome(Head(tcs).function)
             /\ IsSome(Unwrap(Head(tcs).function).arguments)
             THEN Unwrap(Unwrap(Head(tcs).function).arguments) ELSE "")
         \o OpenAICallJson(Tail(tcs), i)

RECURSIVE OpenAIChoicesJson(_, _)
OpenAIChoicesJson(choices, i) ==
    IF choices = <<>> THEN ""
    ELSE (IF IsSome(Head(choices).tool_calls)
             THEN OpenAICallJson(Unwrap(Head(choices).tool_calls), i) ELSE "")
         \o OpenAIChoicesJson(Tail(choices), i)

VendorLineJson(v, line, i) ==
    IF ~line.pre THEN ""
    ELSE IF v = "openai" THEN
        (IF line.payload.type = "chunk"
            THEN OpenAIChoicesJson(line.payload.choices, i) ELSE "")
    ELSE IF /\ line.payload.type = "content_block_delta"
            /\ line.payload.kind = "input_json_delta"
            /\ line.payload.index = i
        THEN line.payload.data[1]
    ELSE ""

RECURSIVE VendorJson(_, _, _)
VendorJson(v, lines, i) ==
    IF lines = <<>> THEN ""
    ELSE VendorLineJson(v, Head(lines), i) \o VendorJson(v, Tail(lines), i)

\* The partial_json fragments emitted with index i, in emission order,
\* concatenated.
RECURSIVE EmittedJson(_, _)
EmittedJson(chunks, i) ==
    IF chunks = <<>> THEN ""
    ELSE (IF /\ Head(chunks).type = "ContentBlockDelta"
             /\ Head(chunks).kind = "InputJsonDelta"
             /\ Head(chunks).index = i
             THEN Head(chunks).data[1] ELSE "")
         \o EmittedJson(Tail(chunks), i)

\* The indices a content event of the model can carry.
BlockIndices == 0..2

ReportsUsage(line) ==
    /\ line.pre
    /\ line.payload.type \in {"chunk", "message_delta"}
    /\ IsSome(line.payload.usage)

\* C14: whenever the vendor stream reports usage totals, a MessageDelta
\* carrying those counters is yielded before the stream ends.  Stated for
\* streams that ran to their end and whose events the chunking left as they
\* are for the same lines in one chunk.
C14_UsageReported ==
    (/\ pc = "done" /\ transport = "ended"
     /\ ~IsSome(partial)
     /\ decoded = DecodeChunk(vendor, sent))
    => \A k \in DOMAIN sent :
          ReportsUsage(sent[k]) =>
              \E j \in DOMAIN YieldedChunks :
                  /\ YieldedChunks[j].type = "MessageDelta"
                  /\ YieldedChunks[j].usage = sent[k].payload.usage

\* The vendors' stop-reason vocabularies and their unified meaning.
ReasonTable(v) ==
    IF v = "anthropic"
      THEN {<<"end_turn", "EndTurn">>, <<"max_tokens", "MaxTokens">>,
            <<"stop_sequence", "StopSequence">>, <<"tool_use", "ToolUse">>}
      ELSE {<<"stop", "EndTurn">>, <<"length", "MaxTokens">>, <<"tool_calls", "ToolUse">>}

UnifiedReason(v, r) ==
    IF \E p \in ReasonTable(v) : p[1] = r
      THEN (CHOOSE p \in ReasonTable(v) : p[1] = r)[2]
      ELSE "EndTurn"

\* The stop reason the vendor sent in a non-streaming response, if any.
VendorReason(v, b) ==
    IF v = "anthropic" THEN b.stop_reason
    ELSE IF b.choices = <<>> THEN None
    ELSE b.choices[1].finish_reason

\* The usage counters the vendor sent, if any, as <<input, output>>.
VendorUsage(v, b) ==
    IF v = "anthropic" THEN Some(<<b.usage.input_tokens, b.usage.output_tokens>>)
    ELSE IF IsSome(b.usage)
        THEN Some(<<Unwrap(b.usage).prompt_tokens, Unwrap(b.usage).completion_tokens>>)
    ELSE None

\* C15: the ChatResponse chat returns maps the vendor's stop reason by the
\* table, an unrecognized reason to EndTurn, has no stop_reason exactly when
\* the vendor sent none, and carries the vendor's id, model and usage counters.
C15_ResponseDecoded ==
    IsSome(response) =>
        LET r == Unwrap(response)
            reason == VendorReason(vendor, body)
            usage == VendorUsage(vendor, body)
        IN  /\ r.id = body.id
            /\ r.model = body.model
            /\ IsSome(r.stop_reason) <=> IsSome(reason)
            /\ IsSome(reason) =>
                  r.stop_reason = Some(UnifiedReason(vendor, Unwrap(reason)))
            /\ IsSome(usage) =>
                  /\ r.usage.input_tokens = Unwrap(usage)[1]
                  /\ r.usage.output_tokens = Unwrap(usage)[2]

\* C15 witness: chat returned the ChatResponse of an OpenAI body whose
\* finish_reason is "length" and which carries usage.
C15_Witness ==
    /\ vendor = "openai" /\ pc = "done"
    /\ IsSome(response)
    /\ VendorReason(vendor, body) = Some("length")
    /\ Unwrap(response).stop_reason = Some("MaxTokens")
    /\ IsSome(body.usage)
    /\ Unwrap(response).usage = Usage(7, 3)

\* C16: for a non-2xx status other than 429 the call returns ApiError with
\* that status; the message is the vendor's error message when the body is
\* the vendor's error JSON and the raw body text otherwise; no ChatResponse
\* is returned and no stream exists.
C16_ApiErrorOnNon2xx ==
    (pc = "done" /\ status # 0 /\ ~IsSuccess(status) /\ status # 429) =>
        /\ result = ApiError(status, IF body.kind = "error_json" THEN body.message
                                     ELSE body.text)
        /\ response = None
        /\ decoded = <<>> /\ yielded = <<>> /\ emitted = <<>>

\* C16 witness: a 500 with the vendor's error JSON gave ApiError with the
\* vendor's message.
C16_Witness ==
    /\ pc = "done" /\ status = 500
    /\ body = ErrorJson("overloaded")
    /\ result = ApiError(500, "overloaded")

\* Some part of a 2xx body fails to decode: the body is not the vendor's
\* response, or the arguments string of a tool call is no JSON document.
FailsToDecode(v, b) ==
    \/ b.kind # "response"
    \/ /\ v = "openai"
       /\ b.choices # <<>>
       /\ IsSome(b.choices[1].message.tool_calls)
       /\ \E k \in DOMAIN Unwrap(b.choices[1].message.tool_calls) :
             ~IsSome(JsonFromStr(Unwrap(b.choices[1].message.tool_calls)[k].function.arguments))

\* C17: chat never returns Ok(ChatResponse) for a 2xx body of which some part
\* failed to decode; it returns an error.
C17_DecodeFailureReturned ==
    (pc = "done" /\ op = "chat" /\ IsSuccess(status) /\ FailsToDecode(vendor, body)) =>
        /\ result.kind # "Ok"
        /\ response = None

\* C18: a call issues exactly one HTTP request: never more than one, and one
\* has been issued whenever the call waits for, reads or has returned from a
\* response, whatever the outcome.
C18_OneRequestPerCall ==
    /\ requests <= 1
    /\ pc # "idle" => requests = 1

\* C18 witness: the call returned RateLimited for a 429 after one request.
C18_Witness ==
    /\ pc = "done" /\ status = 429 /\ result = RateLimited
    /\ requests = 1

\* C19: a call uses the model, max_tokens, temperature and system prompt the
\* provider holds when the call starts, so a call started after a mutator
\* uses the new value; a mutator applied while a call or its stream is in
\* flight changes neither the request the call sent nor what the stream
\* holds and has yielded; and the MessageStart an OpenAI stream yields names
\* the model of the call's start.
C19_ConfigSnapshot ==
    [][ /\ (phase = "idle" /\ phase' = "awaiting") =>
              /\ Unwrap(request').model = provider.model
              /\ Unwrap(request').max_tokens = provider.max_tokens
              /\ Unwrap(request').temperature = provider.temperature
              /\ IsSome(provider.system_prompt) =>
                    Unwrap(request').system = provider.system_prompt
        /\ (phase # "idle" /\ provider' # provider) =>
              /\ request' = request
              /\ captured' = captured
              /\ started' = started
        /\ (vendor = "openai" /\ IsSome(started')) =>
              Unwrap(started').data[2] = Unwrap(request').model ]_vars

\* C19 witness: set_model changed the model while an OpenAI stream was in
\* flight, and the stream then yielded MessageStart with the model of the
\* call's start.
C19_Witness ==
    /\ vendor = "openai"
    /\ phase = "streaming"
    /\ provider.model # snapshot.model
    /\ Unwrap(request).model = snapshot.model
    /\ IsSome(started)
    /\ Unwrap(started).data[2] = snapshot.model

\* The vendor's temperature range, in tenths.
TemperatureMax(v) == IF v = "anthropic" THEN 10 ELSE 20

\* C20: after create_provider and after any sequence of set_temperature
\* calls the provider's temperature lies in the vendor's range: [0.0, 1.0]
\* for Anthropic, [0.0, 2.0] for OpenAI.
C20_TemperatureClamped ==
    /\ ~provider.temperature.nan
    /\ provider.temperature.tenths >= 0
    /\ provider.temperature.tenths <= TemperatureMax(vendor)

\* The messages of a conversation that are not System messages, in order.
NonSystem(messages) == SelectSeq(messages, LAMBDA m : m.role # "System")

\* The position of the first System message, 0 when there is none.
FirstSystem(messages) ==
    IF \E k \in DOMAIN messages : messages[k].role = "System"
      THEN CHOOSE k \in DOMAIN messages :
             /\ messages[k].role = "System"
             /\ \A j \in 1..(k - 1) : messages[j].role # "System"
    ELSE 0

\* The texts of the first n blocks that are Text blocks, concatenated.
RECURSIVE TextUpTo(_, _)
TextUpTo(blocks, n) ==
    IF n = 0 THEN ""
    ELSE TextUpTo(blocks, n - 1) \o (IF blocks[n].type = "Text" THEN blocks[n].text ELSE "")

\* The text a message holds.
MessageText(m) ==
    IF m.content.kind = "Text" THEN m.content.content
    ELSE TextUpTo(m.content.content, Len(m.content.content))

\* C21: the Anthropic request's `system` is the configured prompt if one is
\* set, else the text of the conversation's first System message, else
\* absent; its `messages` are the conversation's non-System messages in
\* their order, one encoded message each, and no System message among them.
C21_AnthropicSystemField ==
    (vendor = "anthropic" /\ IsSome(encoded)) =>
        LET req == Unwrap(encoded)
            first == FirstSystem(conversation)
            kept == NonSystem(conversation)
        IN  /\ IsSome(provider.system_prompt) => req.system = provider.system_prompt
            /\ (~IsSome(provider.system_prompt) /\ first # 0) =>
                  req.system = Some(MessageText(conversation[first]))
            /\ (~IsSome(provider.system_prompt) /\ first = 0) => req.system = None
            /\ Len(req.messages) = Len(kept)
            /\ \A k \in DOMAIN kept :
                  /\ req.messages[k] = AnthropicEncodeMessage(kept[k])
                  /\ req.messages[k].role # "system"

\* C21 witness: no prompt is configured and the conversation holds two System
\* messages with different texts; `system` is the text of the first and
\* `messages` is empty.
C21_Witness ==
    /\ vendor = "anthropic"
    /\ ~IsSome(provider.system_prompt)
    /\ Len(conversation) = 2
    /\ conversation[1].role = "System"
    /\ conversation[2].role = "System"
    /\ conversation[1].content.kind = "Blocks"
    /\ MessageText(conversation[1]) # MessageText(conversation[2])
    /\ IsSome(encoded)
    /\ Unwrap(encoded).system = Some(MessageText(conversation[1]))
    /\ Unwrap(encoded).messages = <<>>

\* C22: in the OpenAI request every message with role `system` is the first
\* element of the message array, wherever the conversation holds its System
\* messages and whether or not a prompt is configured.
C22_SystemMessageLeads ==
    (vendor = "openai" /\ IsSome(encoded)) =>
        \A k \in DOMAIN Unwrap(encoded).messages :
            Unwrap(encoded).messages[k].role = "system" => k = 1

\* The blocks of a message: none for a plain string.
BlocksOf(m) == IF m.content.kind = "Blocks" THEN m.content.content ELSE <<>>

\* The ToolResult blocks of a message, in block order.
ToolResultsOf(m) == SelectSeq(BlocksOf(m), LAMBDA b : b.type = "ToolResult")

\* The vendor's tool-output form of block b is in the encoded request.
ToolOutputEmitted(b) ==
    LET msgs == Unwrap(encoded).messages
    IN  IF vendor = "openai"
          THEN \E k \in DOMAIN msgs :
                  /\ msgs[k].role = "tool"
                  /\ msgs[k].tool_call_id = Some(b.tool_use_id)
        ELSE \E k \in DOMAIN msgs :
                  /\ msgs[k].role = "user"
                  /\ msgs[k].content.kind = "Blocks"
                  /\ \E j \in DOMAIN msgs[k].content.blocks :
                        /\ msgs[k].content.blocks[j].type = "tool_result"
                        /\ msgs[k].content.blocks[j].tool_use_id = b.tool_use_id

\* C23: every ToolResult block of the conversation, whatever the role of the
\* message that holds it, is in the encoded request in the vendor's
\* tool-output form.
C23_ToolResultsReEmitted ==
    IsSome(encoded) =>
        \A k \in DOMAIN conversation :
            \A j \in DOMAIN ToolResultsOf(conversation[k]) :
                ToolOutputEmitted(ToolResultsOf(conversation[k])[j])

\* The tool-output messages of a message: one per ToolResult, in block order.
ToolOutputsOf(m) ==
    [j \in DOMAIN ToolResultsOf(m) |->
        OpenAIMessage("tool", Some(OpenAIText(ToolResultsOf(m)[j].content)), None,
                      Some(ToolResultsOf(m)[j].tool_use_id))]

\* The OpenAI message array without the configured prompt's message.
WithoutPrompt(msgs) == IF IsSome(provider.system_prompt) THEN Tail(msgs) ELSE msgs

\* C24: the OpenAI encoder emits for a message that holds at least one
\* ToolResult block its tool-output messages and nothing else, whatever the
\* message's role.
C24_OnlyToolOutputs ==
    (/\ vendor = "openai"
     /\ IsSome(encoded)
     /\ Len(conversation) = 1
     /\ ToolResultsOf(conversation[1]) # <<>>) =>
        WithoutPrompt(Unwrap(encoded).messages) = ToolOutputsOf(conversation[1])

\* The ToolUse blocks of the Assistant messages of a conversation, in order.
RECURSIVE AssistantToolUses(_)
AssistantToolUses(messages) ==
    IF messages = <<>> THEN <<>>
    ELSE (IF Head(messages).role = "Assistant"
            THEN SelectSeq(BlocksOf(Head(messages)), LAMBDA b : b.type = "ToolUse")
            ELSE <<>>)
         \o AssistantToolUses(Tail(messages))

\* C25: with either vendor, the ToolUse blocks of the conversation's
\* Assistant messages read back from the encoded request with the same id,
\* the same name and an equal argument value, in the same order.
C25_ToolUseRoundTrip ==
    IsSome(returned) =>
        AssistantToolUses(Unwrap(returned)) = AssistantToolUses(conversation)

\* C25 witness: an OpenAI request carried a ToolUse whose arguments hold a
\* nested object through the `arguments` string, and it was read back equal.
C25_Witness ==
    /\ vendor = "openai"
    /\ IsSome(returned)
    /\ \E k \in DOMAIN conversation :
          /\ conversation[k].role = "Assistant"
          /\ \E j \in DOMAIN BlocksOf(conversation[k]) :
                LET b == BlocksOf(conversation[k])[j]
                IN  /\ b.type = "ToolUse"
                    /\ DOMAIN b.input.map = {"a", "b", "path"}
                    /\ b.input.map["b"].t = "object"
                    /\ \E i \in DOMAIN Unwrap(encoded).messages :
                          /\ IsSome(Unwrap(encoded).messages[i].tool_calls)
                          /\ Unwrap(Unwrap(encoded).messages[i].tool_calls)[1].function.arguments
                                = JsonToString(b.input)
                    /\ \E i \in DOMAIN Unwrap(returned) :
                          Unwrap(returned)[i].content = BlocksContent(<<b>>)

\* The message holds text and nothing else.
TextOnly(m) == \A j \in DOMAIN BlocksOf(m) : BlocksOf(m)[j].type = "Text"

\* C26: a message of any role that holds only text, encoded alone by either
\* vendor and read back, is one message with the same role and the same text.
C26_TextRoundTrip ==
    (/\ IsSome(returned)
     /\ ~IsSome(provider.system_prompt)
     /\ Len(conversation) = 1
     /\ TextOnly(conversation[1])) =>
        /\ Len(Unwrap(returned)) = 1
        /\ Unwrap(returned)[1].role = conversation[1].role
        /\ MessageText(Unwrap(returned)[1]) = MessageText(conversation[1])

\* The positions of the ToolUse blocks of a content, in content order.
ToolUsePositions(content) == {k \in DOMAIN content : content[k].type = "ToolUse"}

\* The position of the n-th ToolUse block.
NthToolUse(content, n) ==
    CHOOSE k \in ToolUsePositions(content) :
        Cardinality({j \in ToolUsePositions(content) : j <= k}) = n

\* C27: text is the texts of the Text blocks concatenated in content order;
\* tool_calls holds one ToolCall per ToolUse block, in content order, with
\* the block's id, name and input; has_tool_calls is true exactly when
\* tool_calls is not empty.
C27_ResponseDerivations ==
    IsSome(output) =>
        LET content == Unwrap(response).content
            out == Unwrap(output)
        IN  /\ out.helper = "text" => out.value = TextUpTo(content, Len(content))
            /\ out.helper = "tool_calls" =>
                  /\ Len(out.value) = Cardinality(ToolUsePositions(content))
                  /\ \A n \in DOMAIN out.value :
                        /\ out.value[n].id = content[NthToolUse(content, n)].id
                        /\ out.value[n].name = content[NthToolUse(content, n)].name
                        /\ out.value[n].arguments = content[NthToolUse(content, n)].input
            /\ out.helper = "has_tool_calls" =>
                  (out.value <=> ResponseToolCalls(Unwrap(response)) # <<>>)

\* C27 witness: a response holds a Text block, a ToolUse block and a second
\* Text block, and text returned the two texts joined.
C27_Witness ==
    /\ IsSome(output)
    /\ Unwrap(output).helper = "text"
    /\ Len(Unwrap(response).content) = 3
    /\ Unwrap(response).content[1] = TextBlock("b")
    /\ Unwrap(response).content[2].type = "ToolUse"
    /\ Unwrap(response).content[3] = TextBlock("a")
    /\ Unwrap(output).value = "ba"

\* C28: after set_provider_model returned Ok the named provider's model is
\* the given one, which get_providers reports as current_model and the
\* provider's next request carries; it returns Err only for a name that is
\* not registered.
C28_ProviderModelSet ==
    (IsSome(outcome) /\ Unwrap(outcome).command = "set_provider_model") =>
        LET name == Unwrap(Unwrap(outcome).name)
            model == Unwrap(Unwrap(outcome).model)
        IN  IF Unwrap(outcome).result = OkUnit
              THEN /\ name \in DOMAIN providers
                   /\ providers[name].model = model
                   /\ get_providers(providers, active_provider)[name].current_model = model
                   /\ BuildRequest(providers[name], FALSE, None).model = model
            ELSE name \notin DOMAIN providers

\* C29: set_active_provider(name) returns Ok and makes name the active
\* provider exactly when name is registered; otherwise it returns
\* Err("Provider '<name>' not found") and the active provider stays as it
\* was.  The registry is the same after the call in both cases.
C29_SetActiveProvider ==
    [][ (IsSome(outcome') /\ Unwrap(outcome').command = "set_active_provider") =>
            LET name == Unwrap(Unwrap(outcome').name)
            IN  /\ providers' = providers
                /\ IF name \in DOMAIN providers
                     THEN /\ Unwrap(outcome').result = OkUnit
                          /\ active_provider' = Some(name)
                     ELSE /\ Unwrap(outcome').result.res = "Err"
                          /\ Unwrap(outcome').result.message
                                = "Provider '" \o name \o "' not found"
                          /\ active_provider' = active_provider ]_vars

\* C29 witness: with both providers registered and "anthropic" active by
\* default, set_active_provider("openai") returned Ok and "openai" is active.
C29_Witness ==
    /\ DOMAIN providers = Vendors
    /\ IsSome(outcome)
    /\ Unwrap(outcome).command = "set_active_provider"
    /\ Unwrap(outcome).name = Some("openai")
    /\ Unwrap(outcome).result = OkUnit
    /\ active_provider = Some("openai")

\* A line that carries a complete ping frame.
IsPingLine(l) == l.pre /\ l.payload.type = "ping"

RECURSIVE ChoiceReasons(_)
ChoiceReasons(choices) ==
    IF choices = <<>> THEN <<>>
    ELSE (IF IsSome(Head(choices).finish_reason)
            THEN <<Head(choices).finish_reason>> ELSE <<>>)
         \o ChoiceReasons(Tail(choices))

LineReasons(v, l) ==
    IF ~l.pre THEN <<>>
    ELSE IF v = "anthropic"
      THEN (IF l.payload.type = "message_delta" THEN <<l.payload.stop>> ELSE <<>>)
    ELSE (IF l.payload.type = "chunk" THEN ChoiceReasons(l.payload.choices) ELSE <<>>)

RECURSIVE ChunkReasons(_, _)
ChunkReasons(v, lines) ==
    IF lines = <<>> THEN <<>>
    ELSE LineReasons(v, Head(lines)) \o ChunkReasons(v, Tail(lines))

\* The StopReason the non-streaming decoder gives for a vendor's field.
ResponseReason(v, r) ==
    IF ~IsSome(r) THEN None
    ELSE IF v = "anthropic" THEN Some(AnthropicResponseStopReason(Unwrap(r)))
    ELSE Some(OpenAIResponseStopReason(Unwrap(r)))

\* C36: the streaming decoder maps a vendor stop-reason string to the same
\* StopReason as the non-streaming decoder of that vendor: the MessageDelta
\* chunks decoded from a transport chunk carry, in order, what
\* convert_response gives for the stop-reason fields of the chunk's lines.
C36_SameStopReason ==
    [][ (<<sent, partial>>' # <<sent, partial>>) =>
          LET deltas == SelectSeq(buf', LAMBDA c : c.type = "MessageDelta")
              reasons == ChunkReasons(vendor, ChunkRead)
          IN  /\ Len(deltas) = Len(reasons)
              /\ \A k \in DOMAIN deltas :
                    deltas[k].stop = ResponseReason(vendor, reasons[k]) ]_vars

\* The events on the channel that are Done.
DoneCount == Len(SelectSeq(emitted, LAMBDA e : e.type = "Done"))

\* C37: when send_message_stream has returned and no emit failed, the channel
\* holds exactly one Done event and it is the last event.
C37_DoneOnceAndLast ==
    (op = "chat_stream" /\ pc = "done" /\ result = OkResult /\ ~emitFailed) =>
        /\ emitted # <<>>
        /\ Last(emitted) = Done
        /\ DoneCount = 1


\* The names execute_tool routes.
ToolNames == {"read_file", "write_file", "list_directory", "search_files", "grep_files"}

\* C31: execute_tool on a name outside the five tool names returns
\* Err(ToolNotFound(name)) whatever the arguments are, and the file system
\* is left as it was.
C31_UnknownToolNotFound ==
    \A i \in DOMAIN log :
        (log[i].command = "execute_tool" /\ log[i].input[1].name \notin ToolNames) =>
            /\ log[i].output =
                   <<ToolErr(ToolError("ToolNotFound", log[i].input[1].name))>>
            /\ log[i].after = log[i].before

\* An unknown name with the arguments of a valid write is executed.
C31_Witness ==
    \E i \in DOMAIN log :
        /\ log[i].command = "execute_tool"
        /\ log[i].input[1].name = "WRITE_FILE"
        /\ IsSome(GetStr(log[i].input[1].arguments, "content"))
        /\ log[i].output[1].res = "Err"


\* The path and content of a write_file call, when it has both.
WritePath(tc) == GetStr(tc.arguments, "path")
WriteContent(tc) == GetStr(tc.arguments, "content")
IsWrite(tc) == tc.name = "write_file"
SucceededWrite(entry, path) ==
    /\ entry.command = "execute_tool"
    /\ IsWrite(entry.input[1])
    /\ WritePath(entry.input[1]) = Some(path)
    /\ entry.output[1].res = "Ok"

\* Some call of the entry is a write_file on the path.
WritesPath(entry, path) ==
    \E k \in DOMAIN entry.input :
        IsWrite(entry.input[k]) /\ WritePath(entry.input[k]) = Some(path)

AsStringEntries == {i \in DOMAIN log : log[i].command = "execute_tool_as_string"}

\* C38: execute_tool_as_string always returns a string, and
\* tool_result_is_error of that string is true exactly when execute_tool
\* returns Err for the same call on the same file system.
C38_IsErrorIffErr ==
    \A i \in AsStringEntries :
        /\ DOMAIN log[i].output[1] = 1..Len(log[i].output[1])
        /\ \A k \in DOMAIN log[i].output[1] :
               DOMAIN log[i].output[1][k] = {"kind", "value"}
        /\ tool_result_is_error(log[i].output[1])
               = (execute_tool(log[i].input[1], log[i].before).result.res = "Err")

\* One call that failed and one that succeeded were both rendered.
C38_Witness ==
    /\ \E i \in AsStringEntries :
           /\ execute_tool(log[i].input[1], log[i].before).result.res = "Err"
           /\ tool_result_is_error(log[i].output[1])
    /\ \E i \in AsStringEntries :
           /\ execute_tool(log[i].input[1], log[i].before).result.res = "Ok"
           /\ ~tool_result_is_error(log[i].output[1])


\* The file system the k-th call of a batch runs on.
RECURSIVE FsBeforeCall(_, _, _)
FsBeforeCall(tcs, k, f) ==
    IF k = 1 THEN f ELSE FsBeforeCall(Tail(tcs), k - 1, execute_tool(Head(tcs), f).fs)

\* The execute_tool_calls entries of the log.
BatchEntries == {i \in DOMAIN log : log[i].command = "execute_tool_calls"}

\* C39: execute_tool_calls returns one result per call, in the order of the
\* calls, each with the id of its call; a call whose tool fails is reported
\* with is_error = true and the calls after it are still executed.
C39_OneResultPerCall ==
    \A i \in BatchEntries :
        /\ Len(log[i].output) = Len(log[i].input)
        /\ \A k \in DOMAIN log[i].input :
            LET tc == log[i].input[k]
                before == FsBeforeCall(log[i].input, k, log[i].before)
            IN  /\ log[i].output[k].tool_use_id = tc.id
                /\ log[i].output[k].is_error
                       = (execute_tool(tc, before).result.res = "Err")
                /\ log[i].output[k].content = execute_tool_as_string(tc, before).text

\* A batch whose first call fails and whose second call succeeds.
C39_Witness ==
    \E i \in BatchEntries :
        /\ Len(log[i].input) = 2
        /\ Len(log[i].output) = 2
        /\ log[i].input[1].id # log[i].input[2].id
        /\ log[i].output[1].is_error
        /\ ~log[i].output[2].is_error
        /\ log[i].input[2].name = "write_file"
        /\ log[i].after # log[i].before


\* The tasks a queued task waits for: the holders that keep the lock from
\* it and the tasks queued before it.
\* A queued reader waits for the writer, a queued writer for every holder.
Blockers(l, mode) ==
    {t \in Tasks : rwlocks[l].writer = Some(t)}
        \cup (IF mode = "write" THEN rwlocks[l].readers ELSE {})
QueuedAt(l, t) == {k \in DOMAIN rwlocks[l].queue : rwlocks[l].queue[k].task = t}
WaitsFor(t, u) ==
    \E l \in LockNames : \E k \in QueuedAt(l, t) :
        \/ u \in Blockers(l, rwlocks[l].queue[k].mode) /\ u # t
        \/ \E j \in 1..(k - 1) : rwlocks[l].queue[j].task = u
WaitsForChain(t, u) ==
    \/ WaitsFor(t, u)
    \/ \E v \in Tasks : WaitsFor(t, v) /\ WaitsFor(v, u)
    \/ \E v, w \in Tasks : WaitsFor(t, v) /\ WaitsFor(v, w) /\ WaitsFor(w, u)

\* C33: under every interleaving of init_providers, get_active_provider,
\* set_active_provider and get_providers no set of calls waits in a cycle on
\* the two RwLocks, so every call can still return.
C33_NoCyclicWait == \A t \in Tasks : ~WaitsForChain(t, t)


\* C34: in every reachable state the active provider is None or the name of
\* a registered provider.
C34_ActiveIsRegistered ==
    active_provider = None \/ Unwrap(active_provider) \in DOMAIN providers

\* set_active_provider made the second registered provider the active one.
C34_Witness ==
    /\ active_provider = Some("openai")
    /\ DOMAIN providers = Vendors
    /\ \E t \in CommandTasks :
           tasks[t].op = "set_active_provider" /\ tasks[t].ret = "Ok"

\* What init_providers leaves for an environment.
ExpectedActive(e) ==
    IF KeySet(e, "anthropic") THEN Some("anthropic")
    ELSE IF KeySet(e, "openai") THEN Some("openai")
    ELSE None

\* C35: init_providers registers a provider exactly when its key is set and
\* not empty, and makes a provider active only when none is: anthropic when
\* both keys are set, openai when only its key is set, none without keys.
C35_InitProviders ==
    [][InitReturn =>
          /\ DOMAIN providers' = {n \in Vendors : KeySet(env, n)}
          /\ active_provider' = ExpectedActive(env)]_vars

\* init_providers has returned with both keys set.
C35_Witness ==
    /\ tasks["setup"].pc = "done"
    /\ KeySet(env, "anthropic")
    /\ KeySet(env, "openai")
    /\ DOMAIN providers = Vendors


\* The commands that have returned.
ReturnedCalls == {i \in DOMAIN calls : calls[i].pc = "done"}

\* C40: once close_terminal(id) has returned, list_terminals does not list
\* the id and write_terminal and resize_terminal on it return
\* Err("Terminal <id> not found"); close_terminal on an id that has no session
\* returns Ok and changes nothing; closing a session leaves every other
\* session as it was.
C40_CloseTerminal ==
    /\ \A i \in ReturnedCalls :
        /\ (calls[i].command \in {"write_terminal", "resize_terminal"}
                /\ calls[i].id \in calls[i].closed) =>
               calls[i].ret = TerminalNotFound(calls[i].id)
        /\ calls[i].command = "list_terminals" =>
               \A info \in calls[i].listed : info.id \notin calls[i].closed
        /\ calls[i].command = "close_terminal" => calls[i].ret = "Ok"
    /\ \A i \in DOMAIN calls :
        calls[i].command = "close_terminal" =>
            /\ calls[i].id \notin DOMAIN calls[i].after
            /\ DOMAIN calls[i].after = DOMAIN calls[i].before \ {calls[i].id}
            /\ \A other \in DOMAIN calls[i].after :
                   calls[i].after[other] = calls[i].before[other]
            /\ calls[i].id \notin DOMAIN calls[i].before =>
                   calls[i].after = calls[i].before

\* A session was closed while another one was open, and a later write to the
\* closed id was refused.
C40_Witness ==
    \E i, j \in ReturnedCalls :
        /\ i < j
        /\ calls[i].command = "close_terminal"
        /\ calls[i].id \in DOMAIN calls[i].before
        /\ DOMAIN calls[i].after # {}
        /\ calls[j].command = "write_terminal"
        /\ calls[j].id = calls[i].id
        /\ calls[j].id \in calls[j].closed
        /\ calls[j].ret = TerminalNotFound(calls[j].id)

=============================================================================
